---------------------------- MODULE Spec2Model ----------------------------
(***************************************************************************)
(* Client and budget records of the desktop form application: the store    *)
(* (clients and budgets tables of database.db), the table widgets that     *)
(* show it, the non-modal add/edit dialogs, the modal message boxes and    *)
(* the scoped store connections of src/main.py and src/budget.py.          *)
(*                                                                         *)
(* Text is modelled as a sequence of one-character strings, so that the    *)
(* email pattern, lower-casing, stripping, substring search and the        *)
(* formatting of identifiers are computed character by character.          *)
(***************************************************************************)
EXTENDS Integers, Sequences, FiniteSets, TLC

(***************************************************************************)
(* Bounds of the model.                                                    *)
(***************************************************************************)
\* rows ever inserted into the store (clients and budgets together)
MaxRecords == 2
\* outcomes of secrets.randbelow that are explored: 0 .. MaxDraw-1
MaxDraw == 2
\* non-modal dialogs open at the same time
MaxDialogs == 1

(***************************************************************************)
(* Program constants.                                                      *)
(***************************************************************************)
\* secrets.randbelow(9000)
IdSpan == 9000
\* ... + 1000
IdBase == 1000
\* validate_input(data, max_length=100)
MaxNameLen == 100

(***************************************************************************)
(* Text.                                                                   *)
(***************************************************************************)
Empty == << >>

UpperCase == <<"A","B","C","D","E","F","G","H","I","J","K","L","M",
               "N","O","P","Q","R","S","T","U","V","W","X","Y","Z">>

LowerCase == <<"a","b","c","d","e","f","g","h","i","j","k","l","m",
               "n","o","p","q","r","s","t","u","v","w","x","y","z">>

Digits == <<"0","1","2","3","4","5","6","7","8","9">>

Range(s) == {s[i] : i \in DOMAIN s}

IsUpper(c) == c \in Range(UpperCase)

IsLower(c) == c \in Range(LowerCase)

IsDigit(c) == c \in Range(Digits)

IsSpace(c) == c \in {" ", "\n", "\t"}

\* a character taken as it is
SameChar(c) == c

\* str.lower() on one character
LowerChar(c) ==
    IF IsUpper(c)
    THEN LowerCase[CHOOSE i \in DOMAIN UpperCase : UpperCase[i] = c]
    ELSE c

\* str.lower()
Lower(s) == [i \in DOMAIN s |-> LowerChar(s[i])]

\* Python's  t in s  on strings
Contains(s, t) ==
    \E i \in 0..(Len(s) - Len(t)) : SubSeq(s, i + 1, i + Len(t)) = t

\* str.strip(): leading and trailing whitespace removed
RECURSIVE LStrip(_)
LStrip(s) == IF s # Empty /\ IsSpace(Head(s)) THEN LStrip(Tail(s)) ELSE s

RECURSIVE RStrip(_)
RStrip(s) ==
    IF s # Empty /\ IsSpace(s[Len(s)]) THEN RStrip(SubSeq(s, 1, Len(s) - 1)) ELSE s

Strip(s) == RStrip(LStrip(s))

\* the decimal form of a natural number, as an f-string renders it
RECURSIVE IntToStr(_)
IntToStr(n) ==
    IF n < 10 THEN <<Digits[n + 1]>>
    ELSE IntToStr(n \div 10) \o <<Digits[(n % 10) + 1]>>

\* strftime's two-digit and four-digit fields
Pad(n, width) ==
    LET d == IntToStr(n)
    IN  [i \in 1..(width - Len(d)) |-> "0"] \o d

(***************************************************************************)
(* DataValidator.                                                          *)
(***************************************************************************)
IsAlnum(c) == IsUpper(c) \/ IsLower(c) \/ IsDigit(c)

\* [a-zA-Z0-9_.+-]
LocalChar(c) == IsAlnum(c) \/ c \in {"_", ".", "+", "-"}

\* [a-zA-Z0-9-]
DomainChar(c) == IsAlnum(c) \/ c = "-"

\* [a-zA-Z0-9-.]
TailChar(c) == IsAlnum(c) \/ c \in {"-", "."}

\* ^[a-zA-Z0-9_.+-]+@[a-zA-Z0-9-]+\.[a-zA-Z0-9-.]+  matching all of s
MatchesEmailBody(s) ==
    \E i \in DOMAIN s : \E j \in DOMAIN s :
        /\ 1 < i /\ i + 1 < j /\ j < Len(s)
        /\ s[i] = "@" /\ s[j] = "."
        /\ \A k \in 1..(i - 1) : LocalChar(s[k])
        /\ \A k \in (i + 1)..(j - 1) : DomainChar(s[k])
        /\ \A k \in (j + 1)..Len(s) : TailChar(s[k])

\* the pattern without its  \.[a-zA-Z0-9-.]+$  part
validate_email_no_suffix(email) ==
    \E at \in 2..(Len(email) - 1) :
        /\ email[at] = "@"
        /\ \A k \in 1..(at - 1) : LocalChar(email[k])
        /\ \A k \in (at + 1)..Len(email) : DomainChar(email[k])

\* EMAIL_REGEX.match(email): $ also matches just before one trailing newline
validate_email(email) ==
    \/ MatchesEmailBody(email)
    \/ /\ email # Empty
       /\ email[Len(email)] = "\n"
       /\ MatchesEmailBody(SubSeq(email, 1, Len(email) - 1))

\* bool(data and len(data) <= max_length)
validate_input(data, max_length) == data # Empty /\ Len(data) <= max_length

(***************************************************************************)
(* Placeholders of the entry fields.                                       *)
(***************************************************************************)
NamePlaceholder == <<"D","i","g","i","t","e"," ","o"," ","n","o","m","e">>

EmailPlaceholder == <<"D","i","g","i","t","e"," ","o"," ","e","m","a","i","l">>

PhonePlaceholder == <<"(","X","X",")"," ","X"," ","X","X","X","X","-","X","X","X","X">>

ClientNamePlaceholder == <<"D","i","g","i","t","e"," ","o"," ","n","o","m","e"," ","d","o"," ","c","l","i","e","n","t","e">>

TypePlaceholder == <<"S","e","l","e","c","i","o","n","e"," ","o"," ","t","i","p","o">>

CompletionPlaceholder == <<"S","e","l","e","c","i","o","n","e"," ","a"," ","d","a","t","a">>

DeadlinePlaceholder == <<"D","i","g","i","t","e"," ","o"," ","p","r","a","z","o">>

ServicePlaceholder == <<"S","e","l","e","c","i","o","n","e"," ","o"," ","s","e","r","v","i","c","o">>

(***************************************************************************)
(* Identifiers and dates.                                                  *)
(***************************************************************************)
Min(a, b) == IF a < b THEN a ELSE b

\* secrets.randbelow(n): the outcomes the model explores
randbelow(n) == 0..(Min(n, MaxDraw) - 1)

ClientPrefix == <<"A","U","T","-">>

BudgetPrefix == <<"A","R","T","-">>

\* the draw printed without the  + 1000
generate_client_id_short(r) == ClientPrefix \o IntToStr(r)

\* f"AUT-{secrets.randbelow(9000) + 1000}" for the draw r
generate_client_id(r) == ClientPrefix \o IntToStr(r + IdBase)

\* "ART-" and the draw moved up by the size of the range
generate_budget_id_wide(r) == BudgetPrefix \o IntToStr(r + IdSpan)

\* f"ART-{secrets.randbelow(9000) + 1000}" for the draw r
generate_budget_id(r) == BudgetPrefix \o IntToStr(r + IdBase)

\* the day datetime.now() falls on while the application runs
Days == {[d |-> 5, m |-> 11, y |-> 2026]}

\* strftime("%d/%m/%Y")
FormatDate(day) == Pad(day.d, 2) \o <<"/">> \o Pad(day.m, 2) \o <<"/">> \o Pad(day.y, 4)

(***************************************************************************)
(* What the user types.                                                    *)
(***************************************************************************)
Ana == <<"A","n","a">>

Bruno == <<"B","r","u","n","o">>

Carla == <<"C","a","r","l","a">>

ValidEmail == <<"b","@","x",".","i","o">>

NoDotEmail == <<"a","n","a","@","x">>

FormattedPhone == <<"(","1","1",")"," ","9"," ","8","7","6","5","-","4","3","2","1">>

Entries(name, email, phone) == [name |-> name, email |-> email, phone |-> phone]

\* contents of the three entries of a step-1 client dialog when Proximo is clicked
ClientInputs ==
    { Entries(NamePlaceholder, EmailPlaceholder, PhonePlaceholder),
      Entries(Empty, EmailPlaceholder, PhonePlaceholder),
      Entries(Ana, EmailPlaceholder, PhonePlaceholder),
      Entries(Bruno, ValidEmail, FormattedPhone),
      Entries(Ana, Empty, PhonePlaceholder),
      Entries(Ana, NoDotEmail, FormattedPhone) }

\* text typed into the observation Text widget
ObsInputs == { Empty, <<" ","o","k">> }

\* Text.get("1.0", tk.END): the typed text and the newline the widget appends
TextGet(typed) == typed \o <<"\n">>

\* contents of the search entry
Terms == { Empty, <<"a","N">> }

\* where a store access can fail
Faults == {"none", "connect", "execute", "commit"}

Logo == <<"L","o","g","o">>

BudgetEntries(name, email, type, completion, deadline, service) ==
    [name |-> name, email |-> email, type |-> type, completion |-> completion,
     deadline |-> deadline, service |-> service]

\* contents of the entries of a budget dialog of main.py when Salvar is clicked
BudgetInputs ==
    { BudgetEntries(NamePlaceholder, EmailPlaceholder, TypePlaceholder,
                    CompletionPlaceholder, DeadlinePlaceholder, ServicePlaceholder),
      BudgetEntries(Ana, EmailPlaceholder, TypePlaceholder,
                    CompletionPlaceholder, DeadlinePlaceholder, ServicePlaceholder),
      BudgetEntries(Bruno, ValidEmail, Logo,
                    CompletionPlaceholder, DeadlinePlaceholder, ServicePlaceholder),
      BudgetEntries(Ana, Empty, Logo,
                    CompletionPlaceholder, DeadlinePlaceholder, ServicePlaceholder),
      BudgetEntries(Ana, NoDotEmail, TypePlaceholder,
                    CompletionPlaceholder, DeadlinePlaceholder, ServicePlaceholder) }

\* contents of the combobox and the entries of the add dialog of budget.py;
\* the combobox gets no placeholder, so it is empty until the user fills it
ManagerInputs ==
    { BudgetEntries(Empty, Empty, TypePlaceholder,
                    CompletionPlaceholder, DeadlinePlaceholder, ServicePlaceholder),
      BudgetEntries(ClientNamePlaceholder, Empty, TypePlaceholder,
                    CompletionPlaceholder, DeadlinePlaceholder, ServicePlaceholder),
      BudgetEntries(Ana, Empty, Logo,
                    CompletionPlaceholder, DeadlinePlaceholder, ServicePlaceholder),
      BudgetEntries(Bruno, Empty, TypePlaceholder,
                    CompletionPlaceholder, DeadlinePlaceholder, ServicePlaceholder) }

(***************************************************************************)
(* State.                                                                  *)
(***************************************************************************)
VARIABLES
    clients,        \* rows of the clients table, in rowid order
    nextClientRow,  \* AUTOINCREMENT counter of the clients table
    budgets,        \* rows of the budgets table, in rowid order
    nextBudgetRow,  \* AUTOINCREMENT counter of the budgets table
    budgetCols,     \* columns the budgets table was created with
    tree,           \* DatabaseApp.tree: the client rows shown
    search,         \* DatabaseApp.search_entry: its content
    budget_tree,    \* DatabaseApp.budget_tree: the budget rows shown
    bm_tree,        \* BudgetManager.budget_tree: the budget rows shown
    dialogs,        \* the open Toplevel dialogs (none of them modal)
    pending,        \* the message box shown and what the handler still does after it
    conns,          \* store connections that are open
    clientCols,     \* columns the clients table has; none while it does not exist
    ui              \* DatabaseApp.init_ui has built the views

vars == <<clients, nextClientRow, budgets, nextBudgetRow, budgetCols, tree, search,
          budget_tree, bm_tree, dialogs, pending, conns, clientCols, ui>>

clientVars == <<clients, nextClientRow, tree, search, clientCols, ui>>

budgetVars == <<budgets, nextBudgetRow, budgetCols, budget_tree, bm_tree>>

(***************************************************************************)
(* Statements on the clients table.                                        *)
(***************************************************************************)
\* INSERT INTO clients (client_id, name, email, phone, observation, date_added)
InsertClient(rows, rowid, client_id, name, email, phone, observation, date_added) ==
    Append(rows, [id |-> rowid, client_id |-> client_id, name |-> name,
                  email |-> email, phone |-> phone, observation |-> observation,
                  date_added |-> date_added])

\* an UPDATE that leaves the phone column out
UpdateClientKeepPhone(rows, name, email, phone, observation, client_id) ==
    [i \in DOMAIN rows |->
        IF rows[i].client_id = client_id
        THEN [rows[i] EXCEPT !.name = name, !.email = email,
                             !.observation = observation]
        ELSE rows[i]]

\* an UPDATE that also writes a fresh identifier
UpdateClientAndId(rows, name, email, phone, observation, client_id) ==
    [i \in DOMAIN rows |->
        IF rows[i].client_id = client_id
        THEN [rows[i] EXCEPT !.name = name, !.email = email, !.phone = phone,
                             !.observation = observation,
                             !.client_id = generate_client_id(rows[i].id + MaxDraw)]
        ELSE rows[i]]

\* an UPDATE that inserts the row when no row has the identifier
UpdateOrInsertClient(rows, name, email, phone, observation, client_id) ==
    IF \E i \in DOMAIN rows : rows[i].client_id = client_id
    THEN [i \in DOMAIN rows |->
            IF rows[i].client_id = client_id
            THEN [rows[i] EXCEPT !.name = name, !.email = email, !.phone = phone,
                                 !.observation = observation]
            ELSE rows[i]]
    ELSE Append(rows, [id |-> nextClientRow, client_id |-> client_id, name |-> name,
                       email |-> email, phone |-> phone, observation |-> observation,
                       date_added |-> FormatDate(CHOOSE day \in Days : TRUE)])

\* UPDATE clients SET name=?, email=?, phone=?, observation=? WHERE client_id=?
UpdateClient(rows, name, email, phone, observation, client_id) ==
    [i \in DOMAIN rows |->
        IF rows[i].client_id = client_id
        THEN [rows[i] EXCEPT !.name = name, !.email = email, !.phone = phone,
                             !.observation = observation]
        ELSE rows[i]]

\* a DELETE that falls back to the oldest row when no row has the identifier
DeleteClientOrOldest(rows, client_id) ==
    IF \E i \in DOMAIN rows : rows[i].client_id = client_id
    THEN SelectSeq(rows, LAMBDA r : r.client_id # client_id)
    ELSE IF rows = << >> THEN rows ELSE Tail(rows)

\* DELETE FROM clients WHERE client_id=?
DeleteClient(rows, client_id) ==
    SelectSeq(rows, LAMBDA r : r.client_id # client_id)

\* cursor.rowcount of an UPDATE or DELETE ... WHERE client_id=?
MatchingClients(rows, client_id) ==
    Cardinality({i \in DOMAIN rows : rows[i].client_id = client_id})

\* the columns of CREATE TABLE IF NOT EXISTS clients, the rowid column apart
ClientColumns == {"client_id", "name", "email", "phone", "observation", "date_added"}

\* SELECT client_id, name, email, phone, observation, date_added FROM clients
SelectClients(rows) ==
    [i \in DOMAIN rows |->
        [client_id |-> rows[i].client_id, name |-> rows[i].name,
         email |-> rows[i].email, phone |-> rows[i].phone,
         observation |-> rows[i].observation, date_added |-> rows[i].date_added]]

(***************************************************************************)
(* Scoped connections.                                                     *)
(***************************************************************************)
\* conn = sqlite3.connect(...): the connections the block holds (none when
\* connect raises and conn stays None)
Connect(fault) == IF fault = "connect" THEN 0 ELSE 1

\* a close that is skipped when the block raised
ReleaseUnlessRaised(held, raised) == IF held # 0 /\ ~raised THEN 1 ELSE 0

\* finally: if conn: conn.close()  -- the connections closed on leaving the
\* block, whether the block raised or not
Release(held, raised) == IF held # 0 THEN 1 ELSE 0

\* connections still open once a with-block that ran to its end or raised is left
LeftOpen(fault) == Connect(fault) - Release(Connect(fault), fault # "none")

(***************************************************************************)
(* Message boxes and the rest of a handler.                                *)
(***************************************************************************)
NoPayload == [kind |-> "none"]

Step(t, a, d) == [t |-> t, a |-> a, d |-> d]

Box(t, a) == Step(t, a, NoPayload)

\* showerror(..., f"...: {e}"): the message names the exception that was caught
ErrorBox(a, fault) == Step("showerror", a, [kind |-> "exception", fault |-> fault])

\* a message box of a handler whose cursor ran a statement matching rowcount
\* rows for the identifier id
ResultBox(a, id, rowcount) ==
    Step("showinfo", a, [kind |-> "result", id |-> id, rowcount |-> rowcount])

IsBox(st) == st.t \in {"showinfo", "showwarning", "showerror", "askyesno"}

\* dialog.destroy()
Destroy(ds, d) ==
    IF \E i \in DOMAIN ds : ds[i] = d
    THEN LET i == CHOOSE j \in DOMAIN ds : ds[j] = d /\ \A k \in 1..(j - 1) : ds[k] # d
         IN  SubSeq(ds, 1, i - 1) \o SubSeq(ds, i + 1, Len(ds))
    ELSE ds

\* the statements of a handler that follow a dismissed message box, up to the next one
RECURSIVE Rest(_)
Rest(p) == IF p = << >> \/ IsBox(Head(p)) THEN p ELSE Rest(Tail(p))

RECURSIVE RunDialogs(_, _)
RunDialogs(p, ds) ==
    IF p = << >> \/ IsBox(Head(p)) THEN ds
    ELSE RunDialogs(Tail(p), IF Head(p).t = "destroy" THEN Destroy(ds, Head(p).d) ELSE ds)

RECURSIVE RunConns(_, _)
RunConns(p, c) ==
    IF p = << >> \/ IsBox(Head(p)) THEN c
    ELSE RunConns(Tail(p), IF Head(p).t = "close" THEN c - Release(1, FALSE) ELSE c)

\* __init__ goes on to init_ui once the message box of init_database is closed
RECURSIVE RunUi(_, _)
RunUi(p, u) ==
    IF p = << >> \/ IsBox(Head(p)) THEN u
    ELSE RunUi(Tail(p), u \/ Head(p).t = "init_ui")

\* and from there to load_data, which fills the tree with what its SELECT gave
RECURSIVE RunTree(_, _)
RunTree(p, t) ==
    IF p = << >> \/ IsBox(Head(p)) THEN t
    ELSE RunTree(Tail(p), IF Head(p).t = "load_data" THEN Head(p).d.rows ELSE t)

Idle == pending = << >>

(***************************************************************************)
(* Helpers of the client handlers.                                         *)
(***************************************************************************)
\* name == "Digite o nome" or not name
NameMissing(name) == name = NamePlaceholder \/ name = Empty

\* email != "Digite o email" and not DataValidator.validate_email(email)
EmailRejected(email) == email # EmailPlaceholder /\ ~validate_email(email)

\* a table that keeps the statement although its commit raised
CommittedEarly(before, after, fault) ==
    IF fault \in {"none", "commit"} THEN after ELSE before

\* what the table holds once the with-block is left: a statement that raised,
\* or whose commit raised, leaves nothing behind when the connection is closed
Committed(before, after, fault) == IF fault = "none" THEN after ELSE before

RECURSIVE ToInt(_)
ToInt(s) ==
    IF s = Empty THEN 0
    ELSE 10 * ToInt(SubSeq(s, 1, Len(s) - 1))
         + ((CHOOSE i \in DOMAIN Digits : Digits[i] = s[Len(s)]) - 1)

\* tree.item(...)['values'][k]: tkinter turns a value that reads as an integer
\* into that integer, which the entry then shows in decimal form
item_value(v) ==
    IF v # Empty /\ \A i \in DOMAIN v : IsDigit(v[i]) THEN IntToStr(ToInt(v)) ELSE v

\* load_data: the tree is emptied, then filled from the SELECT unless it fails
load_data(rows, failed) == IF failed THEN << >> ELSE SelectClients(rows)

LoadBoxes(failed) ==
    IF failed THEN <<ErrorBox("Erro ao carregar dados de clientes", "execute")>>
    ELSE << >>

\* the condition of filter_data on one fetched row
RowMatches(row, search_term) ==
    \/ Contains(Lower(row.client_id), search_term)
    \/ Contains(Lower(row.name), search_term)
    \/ Contains(Lower(row.email), search_term)
    \/ Contains(Lower(row.phone), search_term)
    \/ Contains(Lower(row.observation), search_term)
    \/ Contains(Lower(row.date_added), search_term)

\* filter_data: the tree is emptied, then filled with the matching rows
filter_data(rows, entry, failed) ==
    IF failed THEN << >>
    ELSE SelectSeq(SelectClients(rows), LAMBDA row : RowMatches(row, Lower(entry)))

FilterBoxes(failed) ==
    IF failed THEN <<ErrorBox("Erro ao filtrar dados", "execute")>> ELSE << >>

Inserted == (nextClientRow - 1) + (nextBudgetRow - 1)

ClientDialog(kind, client_id, e) ==
    [kind |-> kind, client_id |-> client_id, name |-> e.name, email |-> e.email,
     phone |-> e.phone, observation |-> Empty]

(***************************************************************************)
(* Adding a client: open_add_client_dialog and its two steps.              *)
(***************************************************************************)
\* the dialog is opened and its entries hold what the user left or typed
OpenAddClientDialog(e) ==
    /\ Idle
    /\ Len(dialogs) < MaxDialogs
    /\ dialogs' = Append(dialogs, ClientDialog("add1", Empty, e))
    /\ UNCHANGED <<clientVars, budgetVars, pending, conns>>

\* Proximo of step 1
AddNextStep(i) ==
    /\ Idle
    /\ i \in DOMAIN dialogs
    /\ dialogs[i].kind = "add1"
    /\ LET d == dialogs[i]
       IN  IF NameMissing(d.name)
           THEN /\ pending' = <<Step("showwarning", "O campo nome e obrigatorio!", d)>>
                /\ dialogs' = dialogs
           ELSE IF EmailRejected(d.email)
           THEN /\ pending' = <<Step("showwarning", "Email invalido!", d)>>
                /\ dialogs' = dialogs
           ELSE /\ pending' = pending
                /\ dialogs' = [dialogs EXCEPT ![i] = [d EXCEPT !.kind = "add2"]]
    /\ UNCHANGED <<clientVars, budgetVars, conns>>

\* Salvar of step 2
AddSaveClient(i, typed, r, day, fault, loadfault) ==
    /\ Idle
    /\ i \in DOMAIN dialogs
    /\ dialogs[i].kind = "add2"
    /\ Inserted < MaxRecords
    /\ LET d == [dialogs[i] EXCEPT !.observation = typed]
           observation == Strip(TextGet(d.observation))
           client_id == generate_client_id(r)
           date_added == FormatDate(day)
           after == InsertClient(clients, nextClientRow, client_id, d.name, d.email,
                                 d.phone, observation, date_added)
       IN  /\ clients' = Committed(clients, after, fault)
           /\ IF fault = "none"
              THEN /\ nextClientRow' = nextClientRow + 1
                   /\ tree' = load_data(clients', loadfault)
                   /\ pending' = LoadBoxes(loadfault)
                                 \o <<Box("showinfo", "Cliente adicionado com sucesso!"),
                                      Step("destroy", "", d),
                                      Step("close", "", NoPayload)>>
                   /\ conns' = conns + Connect(fault)
              ELSE /\ ~loadfault
                   /\ nextClientRow' = nextClientRow
                   /\ tree' = tree
                   /\ pending' = <<ErrorBox("Erro ao salvar cliente", fault)>>
                   /\ conns' = conns + LeftOpen(fault)
           /\ dialogs' = [dialogs EXCEPT ![i] = d]
    /\ UNCHANGED <<search, budgetVars, clientCols, ui>>

\* Cancelar of a dialog, or its window being closed
CancelDialog(i) ==
    /\ Idle
    /\ i \in DOMAIN dialogs
    /\ dialogs' = Destroy(dialogs, dialogs[i])
    /\ UNCHANGED <<clientVars, budgetVars, pending, conns>>

(***************************************************************************)
(* Editing a client: open_edit_client_dialog and its two steps.            *)
(***************************************************************************)
EditClientNoSelection ==
    /\ Idle
    /\ pending' = <<Box("showwarning", "Selecione um cliente para editar.")>>
    /\ UNCHANGED <<clientVars, budgetVars, dialogs, conns>>

\* the row k is selected; the entries are filled from it and the user may retype them
OpenEditClientDialog(k, e) ==
    /\ Idle
    /\ k \in DOMAIN tree
    /\ Len(dialogs) < MaxDialogs
    /\ dialogs' = Append(dialogs, ClientDialog("edit1", item_value(tree[k].client_id), e))
    /\ UNCHANGED <<clientVars, budgetVars, pending, conns>>

\* the entries as the dialog fills them from the selected row
Prefilled(row) ==
    Entries(item_value(row.name), item_value(row.email), item_value(row.phone))

\* Proximo of step 1
EditNextStep(i) ==
    /\ Idle
    /\ i \in DOMAIN dialogs
    /\ dialogs[i].kind = "edit1"
    /\ LET d == dialogs[i]
       IN  IF NameMissing(d.name)
           THEN /\ pending' = <<Step("showwarning", "O campo nome e obrigatorio!", d)>>
                /\ dialogs' = dialogs
           ELSE IF EmailRejected(d.email)
           THEN /\ pending' = <<Step("showwarning", "Email invalido!", d)>>
                /\ dialogs' = dialogs
           ELSE /\ pending' = pending
                /\ dialogs' = [dialogs EXCEPT ![i] = [d EXCEPT !.kind = "edit2"]]
    /\ UNCHANGED <<clientVars, budgetVars, conns>>

\* Salvar of step 2
EditSaveClient(i, typed, fault, loadfault) ==
    /\ Idle
    /\ i \in DOMAIN dialogs
    /\ dialogs[i].kind = "edit2"
    /\ LET d == [dialogs[i] EXCEPT !.observation = typed]
           observation == Strip(TextGet(d.observation))
           after == UpdateClient(clients, d.name, d.email, d.phone, observation,
                                 d.client_id)
       IN  /\ clients' = Committed(clients, after, fault)
           /\ IF fault = "none"
              THEN /\ tree' = load_data(clients', loadfault)
                   /\ pending' = LoadBoxes(loadfault)
                                 \o <<ResultBox("Cliente atualizado com sucesso!",
                                                d.client_id,
                                                MatchingClients(clients, d.client_id)),
                                      Step("destroy", "", d),
                                      Step("close", "", NoPayload)>>
                   /\ conns' = conns + Connect(fault)
              ELSE /\ ~loadfault
                   /\ tree' = tree
                   /\ pending' = <<ErrorBox("Erro ao atualizar cliente", fault)>>
                   /\ conns' = conns + LeftOpen(fault)
           /\ dialogs' = [dialogs EXCEPT ![i] = d]
    /\ UNCHANGED <<nextClientRow, search, budgetVars, clientCols, ui>>

(***************************************************************************)
(* Deleting a client: delete_client_record.                                *)
(***************************************************************************)
DeleteClientNoSelection ==
    /\ Idle
    /\ pending' = <<Box("showwarning", "Selecione um cliente para excluir.")>>
    /\ UNCHANGED <<clientVars, budgetVars, dialogs, conns>>

\* a handler that deletes the selected row without asking
DeleteClientAtOnce(k) ==
    /\ Idle
    /\ k \in DOMAIN tree
    /\ clients' = DeleteClient(clients, item_value(tree[k].client_id))
    /\ tree' = load_data(clients', FALSE)
    /\ pending' = <<ResultBox("Cliente excluido com sucesso!", item_value(tree[k].client_id),
                              MatchingClients(clients, item_value(tree[k].client_id)))>>
    /\ UNCHANGED <<nextClientRow, search, clientCols, ui, budgetVars, dialogs, conns>>

\* the row k is selected: the confirmation is asked
DeleteClientAsk(k) ==
    /\ Idle
    /\ k \in DOMAIN tree
    /\ pending' = <<Step("askyesno", "Tem certeza que deseja excluir este cliente?",
                         [kind |-> "client", id |-> item_value(tree[k].client_id)])>>
    /\ UNCHANGED <<clientVars, budgetVars, dialogs, conns>>

\* the budgets left by a DELETE of the client client_id that cascades to the
\* budgets referring to it
CascadeBudgets(rows, client_id) ==
    IF "client_id" \in budgetCols
    THEN SelectSeq(rows, LAMBDA b : b.client_id # client_id)
    ELSE SelectSeq(rows, LAMBDA b :
            \A k \in DOMAIN clients : clients[k].client_id = client_id => b.name # clients[k].name)

\* a delete of a client that takes the client's budgets with it
DeleteClientCascade(confirm, fault, loadfault) ==
    /\ pending # << >>
    /\ Head(pending).t = "askyesno"
    /\ Head(pending).d.kind = "client"
    /\ LET client_id == Head(pending).d.id
       IN  IF ~confirm
           THEN /\ fault = "none" /\ ~loadfault
                /\ pending' = << >>
                /\ UNCHANGED <<clients, tree, conns, budgets>>
           ELSE /\ clients' = Committed(clients, DeleteClient(clients, client_id), fault)
                /\ budgets' = Committed(budgets, CascadeBudgets(budgets, client_id), fault)
                /\ conns' = conns + LeftOpen(fault)
                /\ IF fault = "none"
                   THEN /\ tree' = load_data(clients', loadfault)
                        /\ pending' = LoadBoxes(loadfault)
                                      \o <<ResultBox("Cliente excluido com sucesso!",
                                                     client_id,
                                                     MatchingClients(clients, client_id))>>
                   ELSE /\ ~loadfault
                        /\ tree' = tree
                        /\ pending' = <<ErrorBox("Erro ao excluir cliente", fault)>>
    /\ UNCHANGED <<nextClientRow, search, clientCols, ui, dialogs,
                   nextBudgetRow, budgetCols, budget_tree, bm_tree>>

\* the answer to the confirmation, and the rest of the handler
DeleteClientAnswer(confirm, fault, loadfault) ==
    /\ pending # << >>
    /\ Head(pending).t = "askyesno"
    /\ Head(pending).d.kind = "client"
    /\ LET client_id == Head(pending).d.id
       IN  IF ~confirm
           THEN /\ fault = "none" /\ ~loadfault
                /\ pending' = << >>
                /\ UNCHANGED <<clients, tree, conns>>
           ELSE /\ clients' = Committed(clients, DeleteClient(clients, client_id), fault)
                /\ conns' = conns + LeftOpen(fault)
                /\ IF fault = "none"
                   THEN /\ tree' = load_data(clients', loadfault)
                        /\ pending' = LoadBoxes(loadfault)
                                      \o <<ResultBox("Cliente excluido com sucesso!",
                                                     client_id,
                                                     MatchingClients(clients, client_id))>>
                   ELSE /\ ~loadfault
                        /\ tree' = tree
                        /\ pending' = <<ErrorBox("Erro ao excluir cliente", fault)>>
    /\ UNCHANGED <<nextClientRow, search, budgetVars, clientCols, ui, dialogs>>

(***************************************************************************)
(* Listing the clients: load_data (Recarregar) and filter_data (search).   *)
(***************************************************************************)
LoadData(loadfault) ==
    /\ Idle
    /\ tree' = load_data(clients, loadfault)
    /\ pending' = LoadBoxes(loadfault)
    /\ UNCHANGED <<clients, nextClientRow, search, budgetVars, clientCols, ui, dialogs, conns>>

\* a key released in the search entry, or Buscar: the entry holds term
FilterData(term, loadfault) ==
    /\ Idle
    /\ search' = term
    /\ tree' = filter_data(clients, search', loadfault)
    /\ pending' = FilterBoxes(loadfault)
    /\ UNCHANGED <<clients, nextClientRow, budgetVars, clientCols, ui, dialogs, conns>>

(***************************************************************************)
(* Message boxes.                                                          *)
(***************************************************************************)
\* OK of a message box: the handler that showed it runs on
Dismiss ==
    /\ pending # << >>
    /\ Head(pending).t \in {"showinfo", "showwarning", "showerror"}
    /\ pending' = Rest(Tail(pending))
    /\ dialogs' = RunDialogs(Tail(pending), dialogs)
    /\ conns' = RunConns(Tail(pending), conns)
    /\ ui' = RunUi(Tail(pending), ui)
    /\ tree' = RunTree(Tail(pending), tree)
    /\ UNCHANGED <<clients, nextClientRow, search, clientCols, budgetVars>>

(***************************************************************************)
(* Statements on the budgets table.                                        *)
(***************************************************************************)
\* the budgets table of main.py's init_database
MainColumns == {"budget_id", "name", "email", "date", "type", "completion",
                "deadline", "service"}

\* the budgets table of budget.py's init_database
ManagerColumns == {"budget_id", "client_id", "date", "type", "completion",
                   "deadline", "service"}

\* a statement naming a column the table does not have raises at execute
Effective(fault, columns) ==
    IF fault = "connect" \/ columns \subseteq budgetCols THEN fault ELSE "execute"

\* the value of a NULL column
Null == <<"None">>

\* INSERT INTO budgets (budget_id, name, email, date, type, completion, deadline, service)
InsertBudget(rows, rowid, budget_id, e, date) ==
    Append(rows, [id |-> rowid, budget_id |-> budget_id, name |-> e.name,
                  email |-> e.email, date |-> date, type |-> e.type,
                  completion |-> e.completion, deadline |-> e.deadline,
                  service |-> e.service])

\* (SELECT client_id FROM clients WHERE name=?): the first matching row of the
\* scan in rowid order, NULL when there is none
LookupClientId(rows, name) ==
    IF \E i \in DOMAIN rows : rows[i].name = name
    THEN rows[CHOOSE i \in DOMAIN rows :
                 rows[i].name = name /\ \A j \in 1..(i - 1) : rows[j].name # name].client_id
    ELSE Null

\* INSERT INTO budgets (budget_id, client_id, date, type, completion, deadline, service)
InsertManagerBudget(rows, rowid, budget_id, client_id, e, date) ==
    Append(rows, [id |-> rowid, budget_id |-> budget_id, client_id |-> client_id,
                  date |-> date, type |-> e.type, completion |-> e.completion,
                  deadline |-> e.deadline, service |-> e.service])

\* UPDATE budgets SET name=?, email=?, type=?, completion=?, deadline=?, service=?
\* WHERE budget_id=?
UpdateBudget(rows, e, budget_id) ==
    [i \in DOMAIN rows |->
        IF rows[i].budget_id = budget_id
        THEN [rows[i] EXCEPT !.name = e.name, !.email = e.email, !.type = e.type,
                             !.completion = e.completion, !.deadline = e.deadline,
                             !.service = e.service]
        ELSE rows[i]]

\* DELETE FROM budgets WHERE budget_id=?
DeleteBudget(rows, budget_id) ==
    SelectSeq(rows, LAMBDA r : r.budget_id # budget_id)

\* cursor.rowcount of an UPDATE or DELETE ... WHERE budget_id=?
MatchingBudgets(rows, budget_id) ==
    Cardinality({i \in DOMAIN rows : rows[i].budget_id = budget_id})

\* SELECT budget_id, name, email, date, type, completion, deadline, service FROM budgets
SelectBudgets(rows) ==
    [i \in DOMAIN rows |->
        [budget_id |-> rows[i].budget_id, name |-> rows[i].name,
         email |-> rows[i].email, date |-> rows[i].date, type |-> rows[i].type,
         completion |-> rows[i].completion, deadline |-> rows[i].deadline,
         service |-> rows[i].service]]

\* SELECT budget_id, client_id, date, type, completion, deadline, service FROM budgets
SelectManagerBudgets(rows) ==
    [i \in DOMAIN rows |->
        [budget_id |-> rows[i].budget_id, client_id |-> rows[i].client_id,
         date |-> rows[i].date, type |-> rows[i].type,
         completion |-> rows[i].completion, deadline |-> rows[i].deadline,
         service |-> rows[i].service]]

\* DatabaseApp.load_budget_data
load_budget_data(rows, failed) ==
    IF failed \/ ~(MainColumns \subseteq budgetCols) THEN << >> ELSE SelectBudgets(rows)

\* BudgetManager.load_budget_data
manager_load_budget_data(rows, failed) ==
    IF failed \/ ~(ManagerColumns \subseteq budgetCols) THEN << >>
    ELSE SelectManagerBudgets(rows)

BudgetLoadBoxes(failed, columns) ==
    IF failed \/ ~(columns \subseteq budgetCols)
    THEN <<ErrorBox("Erro ao carregar dados de orcamento", "execute")>>
    ELSE << >>

BudgetDialog(kind, budget_id, e) ==
    [kind |-> kind, budget_id |-> budget_id, name |-> e.name, email |-> e.email,
     type |-> e.type, completion |-> e.completion, deadline |-> e.deadline,
     service |-> e.service]

(***************************************************************************)
(* Budgets in main.py: DatabaseApp.                                        *)
(***************************************************************************)
OpenAddBudgetDialog(e) ==
    /\ Idle
    /\ Len(dialogs) < MaxDialogs
    /\ dialogs' = Append(dialogs, BudgetDialog("budget_add", Empty, e))
    /\ UNCHANGED <<clientVars, budgetVars, pending, conns>>

\* Salvar of the add dialog
SaveBudget(i, r, day, fault, loadfault) ==
    /\ Idle
    /\ i \in DOMAIN dialogs
    /\ dialogs[i].kind = "budget_add"
    /\ Inserted < MaxRecords
    /\ LET d == dialogs[i]
           budget_id == generate_budget_id(r)
           date_added == FormatDate(day)
           f == Effective(fault, MainColumns)
       IN  IF NameMissing(d.name)
           THEN /\ fault = "none" /\ ~loadfault
                /\ pending' = <<Step("showwarning", "O campo nome e obrigatorio!", d)>>
                /\ UNCHANGED <<budgets, nextBudgetRow, budget_tree, conns>>
           ELSE IF EmailRejected(d.email)
           THEN /\ fault = "none" /\ ~loadfault
                /\ pending' = <<Step("showwarning", "Email invalido!", d)>>
                /\ UNCHANGED <<budgets, nextBudgetRow, budget_tree, conns>>
           ELSE /\ budgets' = Committed(budgets,
                                  InsertBudget(budgets, nextBudgetRow, budget_id, d,
                                               date_added), f)
                /\ IF f = "none"
                   THEN /\ nextBudgetRow' = nextBudgetRow + 1
                        /\ budget_tree' = load_budget_data(budgets', loadfault)
                        /\ pending' = BudgetLoadBoxes(loadfault, MainColumns)
                                      \o <<Box("showinfo", "Orcamento adicionado com sucesso!"),
                                           Step("destroy", "", d),
                                           Step("close", "", NoPayload)>>
                        /\ conns' = conns + Connect(f)
                   ELSE /\ ~loadfault
                        /\ nextBudgetRow' = nextBudgetRow
                        /\ budget_tree' = budget_tree
                        /\ pending' = <<ErrorBox("Erro ao salvar orcamento", f)>>
                        /\ conns' = conns + LeftOpen(f)
    /\ UNCHANGED <<clientVars, budgetCols, bm_tree, dialogs>>

EditBudgetNoSelection ==
    /\ Idle
    /\ pending' = <<Box("showwarning", "Selecione um orcamento para editar.")>>
    /\ UNCHANGED <<clientVars, budgetVars, dialogs, conns>>

\* the row k is selected; the entries are filled from it and the user may retype them
OpenEditBudgetDialog(k, e) ==
    /\ Idle
    /\ k \in DOMAIN budget_tree
    /\ Len(dialogs) < MaxDialogs
    /\ dialogs' = Append(dialogs,
                         BudgetDialog("budget_edit", item_value(budget_tree[k].budget_id), e))
    /\ UNCHANGED <<clientVars, budgetVars, pending, conns>>

\* the entries as the edit dialog fills them from the selected row
PrefilledBudget(row) ==
    BudgetEntries(item_value(row.name), item_value(row.email), item_value(row.type),
                  item_value(row.completion), item_value(row.deadline),
                  item_value(row.service))

\* Salvar of the edit dialog
EditSaveBudget(i, fault, loadfault) ==
    /\ Idle
    /\ i \in DOMAIN dialogs
    /\ dialogs[i].kind = "budget_edit"
    /\ LET d == dialogs[i]
           f == Effective(fault, MainColumns)
       IN  IF NameMissing(d.name)
           THEN /\ fault = "none" /\ ~loadfault
                /\ pending' = <<Step("showwarning", "O campo nome e obrigatorio!", d)>>
                /\ UNCHANGED <<budgets, budget_tree, conns>>
           ELSE IF EmailRejected(d.email)
           THEN /\ fault = "none" /\ ~loadfault
                /\ pending' = <<Step("showwarning", "Email invalido!", d)>>
                /\ UNCHANGED <<budgets, budget_tree, conns>>
           ELSE /\ budgets' = Committed(budgets, UpdateBudget(budgets, d, d.budget_id), f)
                /\ IF f = "none"
                   THEN /\ budget_tree' = load_budget_data(budgets', loadfault)
                        /\ pending' = BudgetLoadBoxes(loadfault, MainColumns)
                                      \o <<ResultBox("Orcamento atualizado com sucesso!",
                                                     d.budget_id,
                                                     MatchingBudgets(budgets, d.budget_id)),
                                           Step("destroy", "", d),
                                           Step("close", "", NoPayload)>>
                        /\ conns' = conns + Connect(f)
                   ELSE /\ ~loadfault
                        /\ budget_tree' = budget_tree
                        /\ pending' = <<ErrorBox("Erro ao atualizar orcamento", f)>>
                        /\ conns' = conns + LeftOpen(f)
    /\ UNCHANGED <<clientVars, nextBudgetRow, budgetCols, bm_tree, dialogs>>

DeleteBudgetNoSelection ==
    /\ Idle
    /\ pending' = <<Box("showwarning", "Selecione um orcamento para excluir.")>>
    /\ UNCHANGED <<clientVars, budgetVars, dialogs, conns>>

DeleteBudgetAsk(k) ==
    /\ Idle
    /\ k \in DOMAIN budget_tree
    /\ pending' = <<Step("askyesno", "Tem certeza que deseja excluir este orcamento?",
                         [kind |-> "budget", id |-> item_value(budget_tree[k].budget_id)])>>
    /\ UNCHANGED <<clientVars, budgetVars, dialogs, conns>>

DeleteBudgetAnswer(confirm, fault, loadfault) ==
    /\ pending # << >>
    /\ Head(pending).t = "askyesno"
    /\ Head(pending).d.kind = "budget"
    /\ LET budget_id == Head(pending).d.id
       IN  IF ~confirm
           THEN /\ fault = "none" /\ ~loadfault
                /\ pending' = << >>
                /\ UNCHANGED <<budgets, budget_tree, conns>>
           ELSE /\ budgets' = Committed(budgets, DeleteBudget(budgets, budget_id), fault)
                /\ conns' = conns + LeftOpen(fault)
                /\ IF fault = "none"
                   THEN /\ budget_tree' = load_budget_data(budgets', loadfault)
                        /\ pending' = BudgetLoadBoxes(loadfault, MainColumns)
                                      \o <<ResultBox("Orcamento excluido com sucesso!", budget_id,
                                                     MatchingBudgets(budgets, budget_id))>>
                   ELSE /\ ~loadfault
                        /\ budget_tree' = budget_tree
                        /\ pending' = <<ErrorBox("Erro ao excluir orcamento", fault)>>
    /\ UNCHANGED <<clientVars, nextBudgetRow, budgetCols, bm_tree, dialogs>>

\* Recarregar of the budget tab
LoadBudgetData(loadfault) ==
    /\ Idle
    /\ budget_tree' = load_budget_data(budgets, loadfault)
    /\ pending' = BudgetLoadBoxes(loadfault, MainColumns)
    /\ UNCHANGED <<clientVars, budgets, nextBudgetRow, budgetCols, bm_tree, dialogs,
                   conns>>

(***************************************************************************)
(* Budgets in budget.py: BudgetManager.                                    *)
(***************************************************************************)
ManagerOpenAddBudgetDialog(e) ==
    /\ Idle
    /\ Len(dialogs) < MaxDialogs
    /\ dialogs' = Append(dialogs, BudgetDialog("manager_add", Empty, e))
    /\ UNCHANGED <<clientVars, budgetVars, pending, conns>>

\* a check of the placeholder alone
ClientNameUntouched(client_name) == client_name = ClientNamePlaceholder

\* client_name == "Digite o nome do cliente" or not client_name
ClientNameMissing(client_name) ==
    client_name = ClientNamePlaceholder \/ client_name = Empty

\* Salvar of the add dialog
ManagerSaveBudget(i, r, day, fault, loadfault) ==
    /\ Idle
    /\ i \in DOMAIN dialogs
    /\ dialogs[i].kind = "manager_add"
    /\ Inserted < MaxRecords
    /\ LET d == dialogs[i]
           budget_id == generate_budget_id(r)
           date_added == FormatDate(day)
           f == Effective(fault, ManagerColumns)
       IN  IF ClientNameMissing(d.name)
           THEN /\ fault = "none" /\ ~loadfault
                /\ pending' = <<Step("showwarning", "O campo Nome do Cliente e obrigatorio!", d)>>
                /\ dialogs' = dialogs
                /\ UNCHANGED <<budgets, nextBudgetRow, bm_tree, conns>>
           ELSE /\ budgets' = Committed(budgets,
                                  InsertManagerBudget(budgets, nextBudgetRow, budget_id,
                                      LookupClientId(clients, d.name), d, date_added), f)
                /\ conns' = conns + LeftOpen(f)
                /\ dialogs' = dialogs
                /\ IF f = "none"
                   THEN /\ nextBudgetRow' = nextBudgetRow + 1
                        /\ bm_tree' = manager_load_budget_data(budgets', loadfault)
                        /\ pending' = BudgetLoadBoxes(loadfault, ManagerColumns)
                                      \o <<Box("showinfo", "Orcamento adicionado com sucesso!"),
                                           Step("destroy", "", d)>>
                   ELSE /\ ~loadfault
                        /\ nextBudgetRow' = nextBudgetRow
                        /\ bm_tree' = bm_tree
                        /\ pending' = <<ErrorBox("Erro ao salvar orcamento", f)>>
    /\ UNCHANGED <<clientVars, budgetCols, budget_tree>>

ManagerEditBudgetNoSelection ==
    /\ Idle
    /\ pending' = <<Box("showwarning", "Selecione um orcamento para editar.")>>
    /\ UNCHANGED <<clientVars, budgetVars, dialogs, conns>>

\* the row k is selected: the dialog window is created, then item['values'][7]
\* raises IndexError on the seven values of the row, nothing catches it and the
\* window stays, empty
ManagerOpenEditBudgetDialog(k) ==
    /\ Idle
    /\ k \in DOMAIN bm_tree
    /\ Len(dialogs) < MaxDialogs
    /\ dialogs' = Append(dialogs, [kind |-> "manager_edit_empty"])
    /\ UNCHANGED <<clientVars, budgetVars, pending, conns>>

ManagerDeleteBudgetNoSelection ==
    /\ Idle
    /\ pending' = <<Box("showwarning", "Selecione um orcamento para excluir.")>>
    /\ UNCHANGED <<clientVars, budgetVars, dialogs, conns>>

ManagerDeleteBudgetAsk(k) ==
    /\ Idle
    /\ k \in DOMAIN bm_tree
    /\ pending' = <<Step("askyesno", "Tem certeza que deseja excluir este orcamento?",
                         [kind |-> "manager_budget",
                          id |-> item_value(bm_tree[k].budget_id)])>>
    /\ UNCHANGED <<clientVars, budgetVars, dialogs, conns>>

ManagerDeleteBudgetAnswer(confirm, fault, loadfault) ==
    /\ pending # << >>
    /\ Head(pending).t = "askyesno"
    /\ Head(pending).d.kind = "manager_budget"
    /\ LET budget_id == Head(pending).d.id
       IN  IF ~confirm
           THEN /\ fault = "none" /\ ~loadfault
                /\ pending' = << >>
                /\ UNCHANGED <<budgets, bm_tree, conns>>
           ELSE /\ budgets' = Committed(budgets, DeleteBudget(budgets, budget_id), fault)
                /\ conns' = conns + LeftOpen(fault)
                /\ IF fault = "none"
                   THEN /\ bm_tree' = manager_load_budget_data(budgets', loadfault)
                        /\ pending' = BudgetLoadBoxes(loadfault, ManagerColumns)
                                      \o <<ResultBox("Orcamento excluido com sucesso!", budget_id,
                                                     MatchingBudgets(budgets, budget_id))>>
                   ELSE /\ ~loadfault
                        /\ bm_tree' = bm_tree
                        /\ pending' = <<ErrorBox("Erro ao excluir orcamento", fault)>>
    /\ UNCHANGED <<clientVars, nextBudgetRow, budgetCols, budget_tree, dialogs>>

\* Recarregar of the budget tab
ManagerLoadBudgetData(loadfault) ==
    /\ Idle
    /\ bm_tree' = manager_load_budget_data(budgets, loadfault)
    /\ pending' = BudgetLoadBoxes(loadfault, ManagerColumns)
    /\ UNCHANGED <<clientVars, budgets, nextBudgetRow, budgetCols, budget_tree, dialogs,
                   conns>>

(***************************************************************************)
(* A second running copy of the application on the same database.db: its   *)
(* table shows the rows of the store, one is selected, Excluir is clicked  *)
(* and the confirmation is answered with yes.                              *)
(***************************************************************************)
PeerDeleteClient(k) ==
    /\ k \in DOMAIN clients
    /\ clients' = DeleteClient(clients, item_value(clients[k].client_id))
    /\ UNCHANGED <<nextClientRow, tree, search, budgetVars, clientCols, ui, dialogs, pending, conns>>

PeerDeleteBudget(k) ==
    /\ k \in DOMAIN budgets
    /\ budgets' = DeleteBudget(budgets, item_value(budgets[k].budget_id))
    /\ UNCHANGED <<clientVars, nextBudgetRow, budgetCols, budget_tree, bm_tree, dialogs,
                   pending, conns>>

(***************************************************************************)
(* The specification.                                                      *)
(***************************************************************************)
Init ==
    /\ clients = << >>
    /\ nextClientRow = 1
    /\ budgets = << >>
    /\ nextBudgetRow = 1
    /\ budgetCols \in {MainColumns, ManagerColumns}
    /\ tree = << >>
    /\ search = Empty
    /\ budget_tree = << >>
    /\ bm_tree = << >>
    /\ dialogs = << >>
    /\ pending = << >>
    /\ conns = 0
    /\ clientCols = ClientColumns
    /\ ui = TRUE

ClientNext ==
    \/ \E e \in ClientInputs : OpenAddClientDialog(e)
    \/ \E i \in DOMAIN dialogs : AddNextStep(i)
    \/ \E i \in DOMAIN dialogs, typed \in ObsInputs, r \in randbelow(IdSpan),
          day \in Days, fault \in Faults, loadfault \in BOOLEAN :
          AddSaveClient(i, typed, r, day, fault, loadfault)
    \/ \E i \in DOMAIN dialogs : CancelDialog(i)
    \/ EditClientNoSelection
    \/ \E k \in DOMAIN tree : \E e \in ClientInputs \cup {Prefilled(tree[k])} :
          OpenEditClientDialog(k, e)
    \/ \E i \in DOMAIN dialogs : EditNextStep(i)
    \/ \E i \in DOMAIN dialogs, typed \in ObsInputs, fault \in Faults,
          loadfault \in BOOLEAN : EditSaveClient(i, typed, fault, loadfault)
    \/ DeleteClientNoSelection
    \/ \E k \in DOMAIN tree : DeleteClientAsk(k)
    \/ \E confirm \in BOOLEAN, fault \in Faults, loadfault \in BOOLEAN :
          DeleteClientAnswer(confirm, fault, loadfault)
    \/ \E loadfault \in BOOLEAN : LoadData(loadfault)
    \/ \E term \in Terms, loadfault \in BOOLEAN : FilterData(term, loadfault)
    \/ Dismiss

BudgetNext ==
    \/ \E e \in BudgetInputs : OpenAddBudgetDialog(e)
    \/ \E i \in DOMAIN dialogs, r \in randbelow(IdSpan), day \in Days,
          fault \in Faults, loadfault \in BOOLEAN : SaveBudget(i, r, day, fault, loadfault)
    \/ EditBudgetNoSelection
    \/ \E k \in DOMAIN budget_tree :
          \E e \in BudgetInputs \cup {PrefilledBudget(budget_tree[k])} :
             OpenEditBudgetDialog(k, e)
    \/ \E i \in DOMAIN dialogs, fault \in Faults, loadfault \in BOOLEAN :
          EditSaveBudget(i, fault, loadfault)
    \/ DeleteBudgetNoSelection
    \/ \E k \in DOMAIN budget_tree : DeleteBudgetAsk(k)
    \/ \E confirm \in BOOLEAN, fault \in Faults, loadfault \in BOOLEAN :
          DeleteBudgetAnswer(confirm, fault, loadfault)
    \/ \E loadfault \in BOOLEAN : LoadBudgetData(loadfault)

ManagerNext ==
    \/ \E e \in ManagerInputs : ManagerOpenAddBudgetDialog(e)
    \/ \E i \in DOMAIN dialogs, r \in randbelow(IdSpan), day \in Days,
          fault \in Faults, loadfault \in BOOLEAN :
          ManagerSaveBudget(i, r, day, fault, loadfault)
    \/ ManagerEditBudgetNoSelection
    \/ \E k \in DOMAIN bm_tree : ManagerOpenEditBudgetDialog(k)
    \/ ManagerDeleteBudgetNoSelection
    \/ \E k \in DOMAIN bm_tree : ManagerDeleteBudgetAsk(k)
    \/ \E confirm \in BOOLEAN, fault \in Faults, loadfault \in BOOLEAN :
          ManagerDeleteBudgetAnswer(confirm, fault, loadfault)
    \/ \E loadfault \in BOOLEAN : ManagerLoadBudgetData(loadfault)

Next == ClientNext \/ BudgetNext \/ ManagerNext

\* one running copy of the application
Spec == Init /\ [][Next]_vars

PeerNext ==
    \/ \E k \in DOMAIN clients : PeerDeleteClient(k)
    \/ \E k \in DOMAIN budgets : PeerDeleteBudget(k)

NextShared == Next \/ PeerNext

\* two running copies of the application on one database.db
SpecShared == Init /\ [][NextShared]_vars

(***************************************************************************)
(* Searching a store that earlier runs of the application have filled.     *)
(***************************************************************************)
\* rows of the stores searched
MaxStore == 3

UpperEmail == <<"A","N","@","X",".","I","O">>

\* the row save_client inserts for the draw r, the entries e and the text typed
SavedRow(rowid, r, e, typed) ==
    InsertClient(<< >>, rowid, generate_client_id(r), e.name, e.email, e.phone,
                 Strip(TextGet(typed)), FormatDate(CHOOSE day \in Days : TRUE))[1]

SavedRows ==
    << SavedRow(1, 0, Entries(Ana, EmailPlaceholder, PhonePlaceholder), Empty),
       SavedRow(2, 1, Entries(Bruno, EmailPlaceholder, PhonePlaceholder), Empty),
       SavedRow(3, 0, Entries(Carla, EmailPlaceholder, PhonePlaceholder), Empty),
       SavedRow(4, 1, Entries(Bruno, ValidEmail, FormattedPhone), <<" ","o","k">>),
       SavedRow(5, 1, Entries(Carla, UpperEmail, PhonePlaceholder), Empty) >>

\* the tables earlier runs can have left: rows in rowid order
Stores ==
    { [k \in 1..Cardinality(S) |->
          SavedRows[CHOOSE i \in S : Cardinality({j \in S : j < i}) = k - 1]] :
      S \in {T \in SUBSET DOMAIN SavedRows : Cardinality(T) <= MaxStore} }

SearchTerms ==
    { Empty, <<"a","n">>, <<"A","N">>, <<"u","T","-","1">>, <<"/","1","1","/">>,
      <<"x",".","i">>, <<"O","K">>, <<"z">> }

\* the application has started on such a table: __init__ has called load_data
InitSearch ==
    /\ clients \in Stores
    /\ nextClientRow = Len(SavedRows) + 1
    /\ budgets = << >>
    /\ nextBudgetRow = 1
    /\ budgetCols = MainColumns
    /\ tree = load_data(clients, FALSE)
    /\ search = Empty
    /\ budget_tree = << >>
    /\ bm_tree = << >>
    /\ dialogs = << >>
    /\ pending = << >>
    /\ conns = 0
    /\ clientCols = ClientColumns
    /\ ui = TRUE

NextSearch ==
    \/ \E term \in SearchTerms, loadfault \in BOOLEAN : FilterData(term, loadfault)
    \/ Dismiss

SpecSearch == InitSearch /\ [][NextSearch]_vars

(***************************************************************************)
(* Starting the application on a database.db that may already exist:       *)
(* init_database, then init_ui and the first load_data.                    *)
(***************************************************************************)
\* the statements of init_database that change the schema, in their order
Statements == <<"create_clients", "add_client_id", "add_date_added", "create_budgets">>

\* where init_database raises: at connect, at one of its statements, nowhere
SchemaFaults == {"none", "connect"} \cup Range(Statements)

Database(cols, rows, bcols) == [cols |-> cols, rows |-> rows, bcols |-> bcols]

\* an ALTER TABLE carried out as dropping the table and creating it anew
AddColumnToNew(db, c) == [db EXCEPT !.cols = @ \cup {c}, !.rows = << >>]

\* ALTER TABLE clients ADD COLUMN c TEXT: the rows there get NULL in it
AddColumn(db, c) ==
    [db EXCEPT !.cols = @ \cup {c},
               !.rows = [i \in DOMAIN @ |->
                            [f \in DOMAIN @[i] \cup {c} |->
                                IF f = c THEN Null ELSE @[i][f]]]]

\* one statement of init_database; columns are those of the budgets table of
\* the file the method is in
RunStatement(st, db, columns) ==
    IF st = "create_clients"
    THEN IF db.cols = {} THEN [db EXCEPT !.cols = ClientColumns] ELSE db
    ELSE IF st = "add_client_id"
    THEN IF "client_id" \notin db.cols THEN AddColumn(db, "client_id") ELSE db
    ELSE IF st = "add_date_added"
    THEN IF "date_added" \notin db.cols THEN AddColumn(db, "date_added") ELSE db
    ELSE IF db.bcols = {} THEN [db EXCEPT !.bcols = columns] ELSE db

\* init_database up to the statement that raises: each statement before it is
\* a schema statement outside any transaction and stays
RECURSIVE init_database(_, _, _, _)
init_database(sts, db, columns, fault) ==
    IF sts = << >> \/ fault = "connect" \/ Head(sts) = fault THEN db
    ELSE init_database(Tail(sts), RunStatement(Head(sts), db, columns), columns, fault)

\* the SELECT of load_data names six columns: it raises when one is missing
LoadFails(cols, loadfault) == loadfault \/ ~(ClientColumns \subseteq cols)

\* DatabaseApp.__init__: init_database reports its failure and returns, then
\* init_ui and load_data run
StartUp(fault, loadfault) ==
    /\ Idle
    /\ ~ui
    /\ LET db == init_database(Statements, Database(clientCols, clients, budgetCols),
                               MainColumns, fault)
           failed == LoadFails(db.cols, loadfault)
           shown == load_data(db.rows, failed)
       IN  /\ clientCols' = db.cols
           /\ clients' = db.rows
           /\ budgetCols' = db.bcols
           /\ IF fault = "none"
              THEN /\ ui' = TRUE
                   /\ tree' = shown
                   /\ pending' = LoadBoxes(failed)
              ELSE /\ ui' = ui
                   /\ tree' = tree
                   /\ pending' = <<ErrorBox("Failed to initialize database", fault),
                                   Step("init_ui", "", NoPayload),
                                   Step("load_data", "", [kind |-> "tree", rows |-> shown])>>
                                 \o LoadBoxes(failed)
    /\ UNCHANGED <<nextClientRow, search, budgets, nextBudgetRow, budget_tree, bm_tree,
                   dialogs, conns>>

\* DatabaseManager.init_database of budget.py, called before its views exist;
\* it catches nothing
ManagerInitDatabase(fault) ==
    /\ Idle
    /\ ~ui
    /\ LET db == init_database(Statements, Database(clientCols, clients, budgetCols),
                               ManagerColumns, fault)
       IN  /\ clientCols' = db.cols
           /\ clients' = db.rows
           /\ budgetCols' = db.bcols
    /\ UNCHANGED <<nextClientRow, tree, search, budgets, nextBudgetRow, budget_tree,
                   bm_tree, dialogs, pending, conns, ui>>

\* on_close: the window is closed, the user agrees, the process ends
OnClose(ok) ==
    /\ Idle
    /\ ui
    /\ ui' = ~ok
    /\ tree' = IF ok THEN << >> ELSE tree
    /\ search' = IF ok THEN Empty ELSE search
    /\ dialogs' = IF ok THEN << >> ELSE dialogs
    /\ UNCHANGED <<clients, nextClientRow, clientCols, budgetVars, pending, conns>>

\* a row as a table of the columns cols holds it
Restrict(row, cols) == [f \in cols \cup {"id"} |-> row[f]]

\* clients tables a database.db can come with: none, the one of this version,
\* and tables of other versions
FoundClientColumns ==
    { {}, ClientColumns, ClientColumns \ {"client_id", "date_added"},
      ClientColumns \ {"date_added"}, {"name", "email"} }

FoundClients(cols) ==
    IF cols = {} THEN { << >> }
    ELSE { << >>, <<Restrict(SavedRows[1], cols)>>,
           <<Restrict(SavedRows[1], cols), Restrict(SavedRows[4], cols)>> }

FoundBudgets(bcols) ==
    IF bcols = {} THEN { << >> }
    ELSE IF bcols = MainColumns
    THEN { << >>, InsertBudget(<< >>, 1, generate_budget_id(0),
                               BudgetEntries(Ana, EmailPlaceholder, Logo,
                                             CompletionPlaceholder, DeadlinePlaceholder,
                                             ServicePlaceholder),
                               FormatDate(CHOOSE day \in Days : TRUE)) }
    ELSE { << >>, InsertManagerBudget(<< >>, 1, generate_budget_id(0), Null,
                               BudgetEntries(Ana, Empty, Logo,
                                             CompletionPlaceholder, DeadlinePlaceholder,
                                             ServicePlaceholder),
                               FormatDate(CHOOSE day \in Days : TRUE)) }

\* the process has not started yet
InitStartup ==
    /\ clientCols \in FoundClientColumns
    /\ clients \in FoundClients(clientCols)
    /\ nextClientRow = Len(SavedRows) + 1
    /\ budgetCols \in {{}, MainColumns, ManagerColumns}
    /\ budgets \in FoundBudgets(budgetCols)
    /\ nextBudgetRow = Len(budgets) + 1
    /\ tree = << >>
    /\ search = Empty
    /\ budget_tree = << >>
    /\ bm_tree = << >>
    /\ dialogs = << >>
    /\ pending = << >>
    /\ conns = 0
    /\ ui = FALSE

NextStartup ==
    \/ \E fault \in SchemaFaults, loadfault \in BOOLEAN : StartUp(fault, loadfault)
    \/ \E fault \in SchemaFaults : ManagerInitDatabase(fault)
    \/ \E ok \in BOOLEAN : OnClose(ok)
    \/ Dismiss

SpecStartup == InitStartup /\ [][NextStartup]_vars

(***************************************************************************)
(* Typing into the Telefone entry of a step-1 client dialog: the entry      *)
(* takes the key when it is pressed, format_phone_entry runs when it is     *)
(* released.                                                                *)
(***************************************************************************)
\* re.sub(r'\D', '', text)
DigitsOf(text) == SelectSeq(text, IsDigit)

\* the slice s[a:b]
Slice(s, a, b) == SubSeq(s, a + 1, Min(b, Len(s)))

\* a format that puts the country code in front
format_phone_prefixed(text) ==
    LET phone == DigitsOf(text)
    IN  <<"+", "5", "5", " ", "(">> \o Slice(phone, 0, 2)

\* a format that sets all digits after the seventh behind the hyphen
format_phone_uncut(text) ==
    LET phone == DigitsOf(text)
        part1 == IF Len(phone) > 0 THEN <<"(">> \o Slice(phone, 0, 2) ELSE Empty
        part2 == IF Len(phone) > 2 THEN <<")", " ">> \o Slice(phone, 2, 3) ELSE Empty
        part3 == IF Len(phone) > 3 THEN <<" ">> \o Slice(phone, 3, 7) ELSE Empty
        part4 == IF Len(phone) > 7 THEN <<"-">> \o Slice(phone, 7, Len(phone)) ELSE Empty
    IN  part1 \o part2 \o part3 \o part4

\* what format_phone_entry puts into the entry that holds text
format_phone(text) ==
    LET phone == DigitsOf(text)
        part1 == IF Len(phone) > 0 THEN <<"(">> \o Slice(phone, 0, 2) ELSE Empty
        part2 == IF Len(phone) > 2 THEN <<")", " ">> \o Slice(phone, 2, 3) ELSE Empty
        part3 == IF Len(phone) > 3 THEN <<" ">> \o Slice(phone, 3, 7) ELSE Empty
        part4 == IF Len(phone) > 7 THEN <<"-">> \o Slice(phone, 7, 11) ELSE Empty
    IN  part1 \o part2 \o part3 \o part4

\* keys pressed in the entry; BackSpace and Shift_L insert nothing
Keys == {"1", "a", "BackSpace", "Shift_L"}

\* texts pasted into the entry
Pasted ==
    { <<"1","1","9","8","7","6","5","4","3","2","1">>,
      <<"+","5","5"," ","1","1"," ","9","8","7","6","5","-","4","3","2","1">>,
      <<"t","e","l",".">> }

\* the entry after the key: a character is appended, BackSpace removes the last
Pressed(text, key) ==
    IF key = "BackSpace" THEN SubSeq(text, 1, Len(text) - 1)
    ELSE IF key = "Shift_L" THEN text
    ELSE Append(text, key)

IsPhoneDialog(i) == i \in DOMAIN dialogs /\ dialogs[i].kind \in {"add1", "edit1"}

\* a key goes down in the entry, which holds what the last release left there
KeyPress(i, key) ==
    /\ Idle
    /\ IsPhoneDialog(i)
    /\ format_phone(dialogs[i].phone) = dialogs[i].phone
    /\ dialogs' = [dialogs EXCEPT ![i].phone = Pressed(@, key)]
    /\ UNCHANGED <<clientVars, budgetVars, pending, conns>>

Paste(i, text) ==
    /\ Idle
    /\ IsPhoneDialog(i)
    /\ format_phone(dialogs[i].phone) = dialogs[i].phone
    /\ dialogs' = [dialogs EXCEPT ![i].phone = @ \o text]
    /\ UNCHANGED <<clientVars, budgetVars, pending, conns>>

\* <KeyRelease>: format_phone_entry
KeyRelease(i) ==
    /\ Idle
    /\ IsPhoneDialog(i)
    /\ dialogs' = [dialogs EXCEPT ![i].phone = format_phone(@)]
    /\ UNCHANGED <<clientVars, budgetVars, pending, conns>>

\* the add dialog is open and the Telefone entry has the focus: its
\* placeholder is gone
InitPhone ==
    /\ Init
    /\ budgetCols = MainColumns

NextPhone ==
    \/ OpenAddClientDialog(Entries(Ana, EmailPlaceholder, Empty))
    \/ \E i \in DOMAIN dialogs, key \in Keys : KeyPress(i, key)
    \/ \E i \in DOMAIN dialogs, text \in Pasted : Paste(i, text)
    \/ \E i \in DOMAIN dialogs : KeyRelease(i)

SpecPhone == InitPhone /\ [][NextPhone]_vars

(***************************************************************************)
(* The first record of each table, with every outcome of the draw of its   *)
(* identifier.                                                             *)
(***************************************************************************)
\* every value secrets.randbelow(n) returns
AllDraws(n) == 0..(n - 1)

FirstRecord == clients = << >> /\ budgets = << >>

NextIds ==
    \/ OpenAddClientDialog(Entries(Ana, EmailPlaceholder, PhonePlaceholder))
    \/ \E i \in DOMAIN dialogs : AddNextStep(i)
    \/ /\ FirstRecord
       /\ \E i \in DOMAIN dialogs, r \in AllDraws(IdSpan), day \in Days :
             AddSaveClient(i, Empty, r, day, "none", FALSE)
    \/ OpenAddBudgetDialog(BudgetEntries(Ana, EmailPlaceholder, Logo, CompletionPlaceholder,
                                         DeadlinePlaceholder, ServicePlaceholder))
    \/ /\ FirstRecord
       /\ \E i \in DOMAIN dialogs, r \in AllDraws(IdSpan), day \in Days :
             SaveBudget(i, r, day, "none", FALSE)
    \/ ManagerOpenAddBudgetDialog(BudgetEntries(Ana, Empty, Logo, CompletionPlaceholder,
                                                DeadlinePlaceholder, ServicePlaceholder))
    \/ /\ FirstRecord
       /\ \E i \in DOMAIN dialogs, r \in AllDraws(IdSpan), day \in Days :
             ManagerSaveBudget(i, r, day, "none", FALSE)
    \/ Dismiss

SpecIds == Init /\ [][NextIds]_vars

(***************************************************************************)
(* A client added in main.py and a budget added for it in budget.py, with  *)
(* no failure of the connection.                                           *)
(***************************************************************************)
NextLinked ==
    \/ \E e \in ClientInputs : OpenAddClientDialog(e)
    \/ \E i \in DOMAIN dialogs : AddNextStep(i)
    \/ \E i \in DOMAIN dialogs, typed \in ObsInputs, r \in randbelow(IdSpan), day \in Days :
          AddSaveClient(i, typed, r, day, "none", FALSE)
    \/ \E e \in ManagerInputs : ManagerOpenAddBudgetDialog(e)
    \/ \E i \in DOMAIN dialogs, r \in randbelow(IdSpan), day \in Days :
          ManagerSaveBudget(i, r, day, "none", FALSE)
    \/ ManagerLoadBudgetData(FALSE)
    \/ Dismiss

SpecLinked == Init /\ [][NextLinked]_vars

(***************************************************************************)
(* Properties.                                                             *)
(***************************************************************************)
\* the message box on screen, if any
Shown == IF pending # << >> THEN Head(pending) ELSE Step("none", "", NoPayload)

\* some remaining step of the running handler is the box with text a
Announced(p, a) == \E j \in DOMAIN p : p[j].a = a

\* the least index from which on s holds c, 0 when there is none
FirstIndex(s, c, from) ==
    IF \E i \in from..Len(s) : s[i] = c
    THEN CHOOSE i \in from..Len(s) : s[i] = c /\ \A k \in from..(i - 1) : s[k] # c
    ELSE 0

\* the email pattern, read from left to right: a local part up to the first @,
\* a domain label up to the next dot, and a rest that may hold further dots
EmailPattern(s) ==
    LET at == FirstIndex(s, "@", 1)
        dot == IF at = 0 THEN 0 ELSE FirstIndex(s, ".", at + 1)
        alnum(c) == c \in Range(UpperCase) \cup Range(LowerCase) \cup Range(Digits)
    IN  /\ at > 1 /\ dot > at + 1 /\ dot < Len(s)
        /\ \A k \in 1..(at - 1) : alnum(s[k]) \/ s[k] \in {"_", ".", "+", "-"}
        /\ \A k \in (at + 1)..(dot - 1) : alnum(s[k]) \/ s[k] = "-"
        /\ \A k \in (dot + 1)..Len(s) : alnum(s[k]) \/ s[k] \in {"-", "."}

\* 'AUT-' or 'ART-' followed by exactly four digits
HasIdForm(s, prefix) ==
    /\ Len(s) = Len(prefix) + 4
    /\ SubSeq(s, 1, Len(prefix)) = prefix
    /\ \A k \in (Len(prefix) + 1)..Len(s) : s[k] \in Range(Digits)

C1_RowValid(row) ==
    /\ row.name # Empty
    /\ row.name # NamePlaceholder
    /\ row.email = EmailPlaceholder \/ EmailPattern(row.email)

C1_StoreValid == \A i \in DOMAIN clients : C1_RowValid(clients[i])

\* step 1 of an add or an edit of a client has just been rejected
C1_Rejected ==
    /\ Shown.t = "showwarning"
    /\ Shown.d.kind \in {"add1", "edit1"}

\* C1: from the empty store on, every client row has a name that is neither
\* empty nor the name placeholder and an email that is the email placeholder
\* or matches the email pattern; a rejected add or edit leaves all rows as
\* they were.
C1_ValidatedRecords ==
    /\ []C1_StoreValid
    /\ [][C1_Rejected' /\ ~C1_Rejected => clients' = clients]_vars

\* an edit was rejected for its email while the store holds a client
C1_Witness ==
    /\ clients # << >>
    /\ C1_Rejected
    /\ Shown.a = "Email invalido!"
    /\ Shown.d.kind = "edit1"
    /\ Shown.d.email = NoDotEmail

\* C2: a row keeps its client_id, and a budget row its budget_id, from the
\* step that inserts it to the step that deletes it.
C2_IdentifierFixed ==
    [][ /\ \A i \in DOMAIN clients : \A j \in DOMAIN clients' :
              clients[i].id = clients'[j].id
                 => clients'[j].client_id = clients[i].client_id
        /\ \A i \in DOMAIN budgets : \A j \in DOMAIN budgets' :
              budgets[i].id = budgets'[j].id
                 => budgets'[j].budget_id = budgets[i].budget_id ]_vars

\* an edit has just updated a client row
C2_Witness ==
    /\ Shown.a = "Cliente atualizado com sucesso!"
    /\ Shown.d.rowcount > 0
    /\ \E i \in DOMAIN clients : clients[i].client_id = Shown.d.id /\ clients[i].name = Bruno

\* the dialog the running handler closes once its message box is dismissed
ClosingDialog(p) == p[CHOOSE j \in DOMAIN p : p[j].t = "destroy"].d

AddedText == "Cliente adicionado com sucesso!"

EditedText == "Cliente atualizado com sucesso!"

\* this step is a save of the add dialog that reached its success message
C3_Added == Announced(pending', AddedText) /\ ~Announced(pending, AddedText)

C3_EmailGiven(email) == email = EmailPlaceholder \/ EmailPattern(email)

\* Proximo of the add dialog i lets every name of the set Names pass
C3_NextStepPasses(i, Names) ==
    /\ dialogs[i].kind = "add1"
    /\ AddNextStep(i)
    /\ dialogs[i].name \in Names
    /\ C3_EmailGiven(dialogs[i].email)
    => dialogs'[i].kind = "add2" /\ pending' = << >>

\* a save of the add dialog whose statements do not fail reaches the success
\* message, has inserted one row, and the reloaded list shows it
C3_SaveAdds ==
    /\ \A i \in DOMAIN dialogs : \A typed \in ObsInputs : \A r \in randbelow(IdSpan) :
          \A day \in Days : \A loadfault \in BOOLEAN :
             AddSaveClient(i, typed, r, day, "none", loadfault) => C3_Added
    /\ C3_Added =>
          /\ Len(clients') = Len(clients) + 1
          /\ SubSeq(clients', 1, Len(clients)) = clients
          /\ LET new == clients'[Len(clients')]
             IN  /\ new.name = ClosingDialog(pending').name
                 /\ HasIdForm(new.client_id, ClientPrefix)
                 /\ Shown'.a = AddedText
                      => \E k \in DOMAIN tree' :
                            /\ tree'[k].name = new.name
                            /\ tree'[k].client_id = new.client_id

C3_NamesOfLength == {e.name : e \in {x \in ClientInputs : validate_input(x.name, MaxNameLen)}}

\* C3 as the specification states it: every non-empty name of at most 100
\* characters passes step 1 of add_client, and the save inserts one row that
\* the list then shows with an identifier 'AUT-' and four digits.
C3_Original ==
    [][ /\ \A i \in DOMAIN dialogs : C3_NextStepPasses(i, C3_NamesOfLength)
        /\ C3_SaveAdds ]_vars

\* C3: every non-empty name of at most 100 characters other than the text
\* 'Digite o nome' passes step 1 of add_client when the email is the email
\* placeholder or matches the pattern; a save whose statements do not fail
\* inserts exactly one row with that name, and the reloaded list shows it
\* with an identifier 'AUT-' followed by exactly four digits.
C3_AddClient ==
    [][ /\ \A i \in DOMAIN dialogs :
              C3_NextStepPasses(i, C3_NamesOfLength \ {NamePlaceholder})
        /\ C3_SaveAdds ]_vars

\* a client was added and the list shows it
C3_Witness ==
    /\ Shown.a = AddedText
    /\ ClosingDialog(pending).name = Ana
    /\ \E k \in DOMAIN tree : tree[k].name = Ana /\ HasIdForm(tree[k].client_id, ClientPrefix)

\* the email check of an add dialog has just rejected what the entry holds
C4_EmailRejected ==
    /\ Shown.t = "showwarning"
    /\ Shown.a = "Email invalido!"
    /\ Shown.d.kind \in {"add1", "budget_add"}

\* C4: add_client and add_budget reject an email only when it is non-empty,
\* is not the email placeholder and does not match the pattern, and then write
\* no row; the empty string and the placeholder pass.
C4_Original ==
    /\ [](C4_EmailRejected =>
             /\ Shown.d.email # Empty
             /\ Shown.d.email # EmailPlaceholder
             /\ ~EmailPattern(Shown.d.email))
    /\ [][C4_EmailRejected' /\ ~C4_EmailRejected
             => clients' = clients /\ budgets' = budgets]_vars

\* o is typed without its leading and trailing white space
C5_Trimmed(typed, o) ==
    /\ \E a \in 0..Len(typed) : \E b \in a..Len(typed) :
          /\ o = SubSeq(typed, a + 1, b)
          /\ \A k \in (1..a) \cup ((b + 1)..Len(typed)) : typed[k] \in {" ", "\n", "\t"}
    /\ o # Empty => o[1] \notin {" ", "\n", "\t"} /\ o[Len(o)] \notin {" ", "\n", "\t"}

\* this step is a save of the edit dialog that reached its success message
C5_Edited == Announced(pending', EditedText) /\ ~Announced(pending, EditedText)

\* after an edit every row of the edited client holds the entries of the dialog,
\* the observation as Obs relates it to the typed text, and the list shows them
C5_RoundTrip(Obs(_, _)) ==
    C5_Edited =>
       LET d == ClosingDialog(pending')
       IN  /\ Len(clients') = Len(clients)
           /\ \A i \in DOMAIN clients :
                 clients[i].client_id = d.client_id =>
                    /\ clients'[i].name = d.name
                    /\ clients'[i].email = d.email
                    /\ clients'[i].phone = d.phone
                    /\ Obs(d.observation, clients'[i].observation)
                    /\ Shown'.a = EditedText =>
                          /\ Len(tree') = Len(clients)
                          /\ tree'[i].name = d.name
                          /\ tree'[i].email = d.email
                          /\ tree'[i].phone = d.phone
                          /\ Obs(d.observation, tree'[i].observation)
                          /\ tree'[i].date_added = clients[i].date_added

\* a row keeps the date_added it was inserted with
C5_DateKept ==
    \A i \in DOMAIN clients : \A j \in DOMAIN clients' :
       clients[i].id = clients'[j].id => clients'[j].date_added = clients[i].date_added

C5_Same(typed, o) == o = typed

\* C5 as the specification states it: the list after edit_client shows exactly
\* the new name, email, phone and observation, and the date_added of creation.
C5_Original == [][C5_RoundTrip(C5_Same) /\ C5_DateKept]_vars

\* C5: the list after edit_client shows exactly the new name, email and phone,
\* the new observation without its leading and trailing white space, and the
\* date_added the record was created with.
C5_EditRoundTrip == [][C5_RoundTrip(C5_Trimmed) /\ C5_DateKept]_vars

\* an edit has replaced Ana's fields and trimmed the observation typed
C5_Witness ==
    /\ Shown.a = EditedText
    /\ Shown.d.rowcount > 0
    /\ ClosingDialog(pending).observation = <<" ", "o", "k">>
    /\ \E k \in DOMAIN tree :
          /\ tree[k].client_id = Shown.d.id
          /\ tree[k].name = Bruno
          /\ tree[k].phone = FormattedPhone
          /\ tree[k].observation = <<"o", "k">>

\* the confirmation on screen asks for the deletion by an identifier that no
\* row of its table has, and this step answers it
C6_AnswersAbsent(kinds, count) ==
    /\ Shown.t = "askyesno"
    /\ Shown.d.kind \in kinds
    /\ count = 0
    /\ pending' # pending

\* the handler ended in its success message, or the user declined, or a
\* statement of the store failed and its exception was reported
C6_NoError(text) ==
    \/ pending' = << >>
    \/ Announced(pending', text) /\ Shown'.t # "showerror"
    \/ Shown'.t = "showerror" /\ Shown'.d.kind = "exception"

\* C6: delete_client, and delete_budget of either entry point, by an
\* identifier that no row has leaves clients and budgets as they are and ends
\* in the success message unless a statement of the store itself fails.
C6_AbsentDeleteNoOp ==
    [][ /\ C6_AnswersAbsent({"client"}, MatchingClients(clients, Shown.d.id))
           => /\ clients' = clients /\ budgets' = budgets
              /\ C6_NoError("Cliente excluido com sucesso!")
        /\ C6_AnswersAbsent({"budget", "manager_budget"}, MatchingBudgets(budgets, Shown.d.id))
           => /\ clients' = clients /\ budgets' = budgets
              /\ C6_NoError("Orcamento excluido com sucesso!") ]_vars

\* a confirmed deletion matched no row and reported success while rows remain
C6_Witness ==
    /\ Shown.t = "showinfo"
    /\ Shown.a = "Cliente excluido com sucesso!"
    /\ Shown.d.rowcount = 0
    /\ clients # << >>

\* t occurs in s when letters are compared without regard to case
C7_Occurs(t, s) ==
    LET same(a, b) ==
            \/ a = b
            \/ \E k \in DOMAIN UpperCase :
                  {a, b} = {UpperCase[k], LowerCase[k]}
    IN  \E off \in 0..(Len(s) - Len(t)) : \A k \in 1..Len(t) : same(t[k], s[off + k])

C7_Fields == {"client_id", "name", "email", "phone", "observation", "date_added"}

\* the rows of the table in which the term occurs in at least one field
C7_Matching(rows, term) ==
    SelectSeq(SelectClients(rows), LAMBDA row : \E f \in C7_Fields : C7_Occurs(term, row[f]))

C7_Names(rows) == [k \in DOMAIN rows |-> rows[k].name]

\* a search has run and its SELECT has not failed: no message box is shown
C7_Searched == pending = << >> /\ pending' = << >>

C8_BlocksEntered == Cardinality({j \in DOMAIN pending : pending[j].t = "close"})

\* C8: the connections open are those of the with-blocks not yet left: a block
\* left at its end or by an exception has closed its connection, and none is
\* open once the handler has returned.
C8_ScopedConnections ==
    /\ conns = C8_BlocksEntered
    /\ Idle => conns = 0

\* a statement raised inside a with-block, the exception was reported, and
\* the connection of the block is closed
C8_Witness ==
    /\ Shown.t = "showerror"
    /\ Shown.d.kind = "exception"
    /\ Shown.d.fault = "execute"
    /\ Len(pending) = 1
    /\ conns = 0

\* C9: no connection is open while a message box is shown or while the
\* application waits for the user.
C9_Original == conns = 0

\* this step ends an operation in the report of a failed statement
C10_Failed ==
    /\ pending' # pending
    /\ Len(pending') = 1
    /\ Shown'.t = "showerror"
    /\ Shown'.d.kind = "exception"

\* C10: when a statement of an add, edit, delete or list fails, the handler
\* reports the exception in a message box, both tables hold the rows they
\* held before, no connection stays open, and once the box is dismissed the
\* application takes the next event.
C10_FailureContained ==
    /\ [][C10_Failed =>
             /\ clients' = clients /\ nextClientRow' = nextClientRow
             /\ budgets' = budgets /\ nextBudgetRow' = nextBudgetRow
             /\ conns' = 0]_vars
    /\ [](Shown.t = "showerror" => ENABLED Dismiss)
    /\ [][Shown.t = "showerror" /\ Len(pending) = 1 /\ pending' # pending => Idle']_vars

\* the commit of an add raised on a table that holds a row
C10_Witness ==
    /\ Shown.t = "showerror"
    /\ Shown.a = "Erro ao salvar cliente"
    /\ Shown.d.fault = "commit"
    /\ clients # << >>

\* this step is a run of init_database, of either file, in which nothing raised
C11_Ran ==
    \/ \E loadfault \in BOOLEAN : StartUp("none", loadfault)
    \/ ManagerInitDatabase("none")

\* every row is where it was and holds what it held in the columns it had
C11_RowsKept ==
    /\ Len(clients') = Len(clients)
    /\ \A i \in DOMAIN clients : \A f \in DOMAIN clients[i] : clients'[i][f] = clients[i][f]
    /\ budgets' = budgets
    /\ clientCols \subseteq clientCols'
    /\ budgetCols # {} => budgetCols' = budgetCols

\* a further run of init_database, of either file, finds nothing to change
C11_SecondRunIdle ==
    LET db == Database(clientCols', clients', budgetCols')
    IN  /\ init_database(Statements, db, MainColumns, "none") = db
        /\ init_database(Statements, db, ManagerColumns, "none") = db

\* C11 as the specification states it: init_database keeps every row, changes
\* nothing when run again, and leaves a clients table with all six columns
\* whatever columns the table had before.
C11_Original ==
    [][C11_Ran => /\ C11_RowsKept
                  /\ C11_SecondRunIdle
                  /\ ClientColumns \subseteq clientCols']_vars

\* C11: init_database keeps every row of clients and budgets, changes nothing
\* when run again, and adds to an existing clients table the columns
\* client_id and date_added and no other, so the table has all six columns
\* when it is new or had name, email, phone and observation before.
C11_SchemaAdditive ==
    [][C11_Ran =>
          /\ C11_RowsKept
          /\ C11_SecondRunIdle
          /\ clientCols' = IF clientCols = {} THEN ClientColumns
                           ELSE clientCols \cup {"client_id", "date_added"}
          /\ {"name", "email", "phone", "observation"} \subseteq clientCols
                => ClientColumns \subseteq clientCols']_vars

\* the application runs on a table that got its client_id column at startup:
\* the row found there is kept and shown
C11_Witness ==
    /\ ui
    /\ Idle
    /\ clientCols = ClientColumns
    /\ Len(clients) = 2
    /\ clients[1].name = Ana
    /\ clients[1].client_id = Null
    /\ Len(tree) = 2

\* the message box of a failed init_database is on screen
C12_FailureShown ==
    /\ Shown.t = "showerror"
    /\ Shown.a = "Failed to initialize database"

\* C12: a failure of init_database at startup is reported, and once the report
\* is closed neither the views are built nor the client rows loaded; the
\* process goes on waiting for events.
C12_Original ==
    [][ /\ \A fault \in SchemaFaults \ {"none"} : \A loadfault \in BOOLEAN :
              StartUp(fault, loadfault) => C12_FailureShown'
        /\ C12_FailureShown /\ pending' # pending
              => /\ ui' = FALSE
                 /\ tree' = tree
                 /\ pending' = << >> ]_vars

\* C13: formatting what format_phone_entry has left in the entry gives the
\* same text again, and '(11) 9 8765-4321' is formatted to itself.
C13_FormatIdempotent ==
    [][\A i \in DOMAIN dialogs :
          KeyRelease(i) =>
             /\ format_phone(dialogs'[i].phone) = dialogs'[i].phone
             /\ dialogs[i].phone = FormattedPhone => dialogs'[i].phone = FormattedPhone]_vars

\* a key was released on '(11) 9 8765-4321' and the entry still holds it
C13_Witness ==
    /\ dialogs # << >>
    /\ dialogs[1].phone = FormattedPhone

\* the digits of a text, in their order
C14_Digits(text) ==
    SelectSeq(text, LAMBDA c : c \in {"0", "1", "2", "3", "4", "5", "6", "7", "8", "9"})

\* the pattern '(XX) X XXXX-XXXX' with its k-th X replaced by the k-th digit,
\* cut after the last digit there is
C14_Render(ds) ==
    LET pattern == <<"(","X","X",")"," ","X"," ","X","X","X","X","-","X","X","X","X">>
        rank(p) == Cardinality({q \in 1..p : pattern[q] = "X"})
        last == IF ds = << >> THEN 0
                ELSE CHOOSE p \in DOMAIN pattern :
                        pattern[p] = "X" /\ rank(p) = Cardinality(DOMAIN ds \cap 1..rank(Len(pattern)))
    IN  [p \in 1..last |-> IF pattern[p] = "X" THEN ds[rank(p)] ELSE pattern[p]]

\* C14: format_phone_entry replaces the text of the entry by its digits, the
\* first eleven at most, set into '(d1d2) d3 d4d5d6d7-d8d9d10d11' and cut after
\* the last digit; a text without digits becomes empty and '11987654321'
\* becomes '(11) 9 8765-4321'.
C14_FormatsPrefix ==
    [][\A i \in DOMAIN dialogs :
          KeyRelease(i) =>
             /\ dialogs'[i].phone = C14_Render(C14_Digits(dialogs[i].phone))
             /\ C14_Digits(dialogs[i].phone) = << >> => dialogs'[i].phone = << >>
             /\ dialogs[i].phone = <<"1","1","9","8","7","6","5","4","3","2","1">>
                   => dialogs'[i].phone = FormattedPhone]_vars

\* three digits were typed: the entry holds them up to the third, no
\* separator after it
C14_Witness ==
    /\ dialogs # << >>
    /\ dialogs[1].phone = <<"(", "1", "1", ")", " ", "1">>

\* the decimal form of a number of four digits
C15_Decimal(n) ==
    LET digit(k) == <<"0", "1", "2", "3", "4", "5", "6", "7", "8", "9">>[k + 1]
    IN  <<digit(n \div 1000), digit((n \div 100) % 10), digit((n \div 10) % 10), digit(n % 10)>>

\* prefix followed by the decimal form of an integer from 1000 to 9999
C15_InRange(s, prefix) ==
    /\ HasIdForm(s, prefix)
    /\ s[Len(prefix) + 1] # "0"

C15_All(prefix) == {prefix \o C15_Decimal(n) : n \in 1000..9999}

\* C15: the identifiers generate_client_id can return are exactly 'AUT-' and
\* the decimal form of each integer from 1000 to 9999, those of
\* generate_budget_id the same with 'ART-'; every client_id in the store has
\* the first form and every budget_id the second.
C15_IdentifierRange ==
    /\ \A i \in DOMAIN clients : C15_InRange(clients[i].client_id, <<"A", "U", "T", "-">>)
    /\ \A i \in DOMAIN budgets : C15_InRange(budgets[i].budget_id, <<"A", "R", "T", "-">>)
    /\ dialogs = << >> /\ FirstRecord =>
          /\ {generate_client_id(r) : r \in AllDraws(IdSpan)} = C15_All(<<"A", "U", "T", "-">>)
          /\ {generate_budget_id(r) : r \in AllDraws(IdSpan)} = C15_All(<<"A", "R", "T", "-">>)

\* the greatest draw was made for a client and the list shows AUT-9999
C15_Witness ==
    /\ tree # << >>
    /\ tree[1].client_id = <<"A", "U", "T", "-", "9", "9", "9", "9">>

\* an add-budget dialog whose client reference is empty or still the placeholder
C16_NoReference(d) ==
    \/ /\ d.kind = "budget_add"
       /\ (Len(d.name) = 0 \/ d.name = NamePlaceholder)
    \/ /\ d.kind = "manager_add"
       /\ (Len(d.name) = 0 \/ d.name = ClientNamePlaceholder)

\* this step is a click on Salvar of the dialog d
C16_Saves(d) ==
    /\ pending = << >>
    /\ pending' # << >>
    /\ \E j \in DOMAIN pending' : pending'[j].d = d

\* C16: Salvar on an add-budget dialog of main.py or of budget.py whose client
\* reference is empty or the placeholder shows a warning and nothing else:
\* no budget row is inserted and the budgets table is unchanged.
C16_EmptyReferenceRejected ==
    [][\A i \in DOMAIN dialogs :
          C16_NoReference(dialogs[i]) /\ C16_Saves(dialogs[i]) =>
             /\ budgets' = budgets
             /\ nextBudgetRow' = nextBudgetRow
             /\ Len(pending') = 1
             /\ pending'[1].t = "showwarning"]_vars

\* a save without a reference was refused while the table held a budget
C16_Witness ==
    /\ budgets # << >>
    /\ Shown.t = "showwarning"
    /\ C16_NoReference(Shown.d)

\* this step is a click on Salvar of an add dialog of budget.py that got past
\* the check of the client name
C17_Saved ==
    /\ pending = << >>
    /\ pending' # << >>
    /\ \/ Announced(pending', "Orcamento adicionado com sucesso!")
       \/ Announced(pending', "Erro ao salvar orcamento")

\* the identifiers of the client records named name
C17_Identifiers(name) == {clients[k].client_id : k \in {j \in DOMAIN clients : clients[j].name = name}}

\* C17: when the clients table holds a record named N, Salvar on an add dialog
\* of budget.py that names N inserts one budget, the list of budget.py shows it,
\* and its client reference is the identifier of a client record named N.
C17_Original ==
    [][\A i \in DOMAIN dialogs :
          /\ dialogs[i].kind = "manager_add"
          /\ C17_Identifiers(dialogs[i].name) # {}
          /\ C17_Saved
          => /\ Len(budgets') = Len(budgets) + 1
             /\ budgets'[Len(budgets')].client_id \in C17_Identifiers(dialogs[i].name)
             /\ \E j \in DOMAIN bm_tree' :
                   /\ bm_tree'[j].budget_id = budgets'[Len(budgets')].budget_id
                   /\ bm_tree'[j].client_id = budgets'[Len(budgets')].client_id]_vars

\* the dialog d, opened on a row of a budget list, holds the identifier of the
\* row and the entries to save
C18_Editable(d) ==
    d.kind \in {"budget_edit", "manager_edit_empty"} =>
       {"budget_id", "type", "completion", "deadline", "service"} \subseteq DOMAIN d

\* this step is a save of the edit dialog d that reached its success message
C18_Edited(d) ==
    /\ pending = << >>
    /\ pending' # << >>
    /\ pending'[1].a = "Orcamento atualizado com sucesso!"
    /\ ClosingDialog(pending') = d

\* the record with the identifier of d holds the entries of d, its identifier
\* and its date being those of before
C18_Updated(d) ==
    /\ DOMAIN budgets' = DOMAIN budgets
    /\ \A k \in DOMAIN budgets :
          budgets[k].budget_id = d.budget_id =>
             /\ budgets'[k].type = d.type
             /\ budgets'[k].completion = d.completion
             /\ budgets'[k].deadline = d.deadline
             /\ budgets'[k].service = d.service
             /\ budgets'[k].budget_id = budgets[k].budget_id
             /\ budgets'[k].date = budgets[k].date
             /\ budget_tree'[k].budget_id = d.budget_id
             /\ budget_tree'[k].type = d.type
             /\ budget_tree'[k].completion = d.completion
             /\ budget_tree'[k].deadline = d.deadline
             /\ budget_tree'[k].service = d.service
             /\ budget_tree'[k].date = budgets[k].date

\* C18: in main.py and in budget.py alike, the edit dialog opened on a listed
\* budget can be saved, and a save that succeeds leaves the new type,
\* completion estimate, deadline and service on the record with that
\* identifier, in the store and in the list, the identifier and the date
\* being unchanged.
C18_Original ==
    /\ [](\A i \in DOMAIN dialogs : C18_Editable(dialogs[i]))
    /\ [][\A i \in DOMAIN dialogs : C18_Edited(dialogs[i]) => C18_Updated(dialogs[i])]_vars

\* the rowids of a table
C19_RowIds(rows) == {rows[i].id : i \in DOMAIN rows}

\* this step removes a record from the store
C19_Removes ==
    \/ ~(C19_RowIds(clients) \subseteq C19_RowIds(clients'))
    \/ ~(C19_RowIds(budgets) \subseteq C19_RowIds(budgets'))

\* this step is a click on Excluir with no row selected
C19_NoSelection ==
    /\ pending = << >>
    /\ pending' # << >>
    /\ pending'[1].a \in {"Selecione um cliente para excluir.",
                          "Selecione um orcamento para excluir."}

\* this step is the answer No to the confirmation of a delete
C19_Declined ==
    /\ Shown.t = "askyesno"
    /\ pending' = << >>

\* C19: a step that removes a record from the store is the continuation of a
\* delete handler whose confirmation is on the screen; Excluir with no row
\* selected and a declined confirmation leave clients and budgets unchanged.
C19_DeleteConfirmed ==
    [][/\ C19_Removes => Shown.t = "askyesno"
       /\ C19_NoSelection \/ C19_Declined => clients' = clients /\ budgets' = budgets]_vars

\* Excluir was clicked with no row selected while the store held a client and a budget
C19_Witness ==
    /\ clients # << >>
    /\ budgets # << >>
    /\ Shown.a = "Selecione um cliente para excluir."

\* this step belongs to delete_client or to the save of edit_client
C20_ClientOperation ==
    \/ clients' # clients
    \/ Shown.t = "askyesno" /\ Shown.d.kind = "client"
    \/ /\ pending = << >>
       /\ pending' # << >>
       /\ \/ Announced(pending', "Cliente atualizado com sucesso!")
          \/ Announced(pending', "Erro ao atualizar cliente")

\* C20: no step of delete_client or edit_client, and no step that changes the
\* clients table, changes the budgets table: every budget record is the same
\* after it as before, also one that refers to the client deleted.
C20_BudgetsKept ==
    [][C20_ClientOperation => budgets' = budgets /\ budgetCols' = budgetCols]_vars

\* a client was deleted and a budget that refers to it is still in the store
C20_Witness ==
    /\ Shown.a = "Cliente excluido com sucesso!"
    /\ Shown.d.rowcount = 1
    /\ \A k \in DOMAIN clients : clients[k].client_id # Shown.d.id
    /\ budgetCols = ManagerColumns
    /\ \E k \in DOMAIN budgets : budgets[k].client_id = Shown.d.id

\* this step is a save of an edit dialog of the given kind, every open dialog
\* of that kind carrying an identifier that the rows ids no longer hold
C21_SavesUnmatched(kind, ids, text, err) ==
    /\ pending = << >>
    /\ Announced(pending', text) \/ Announced(pending', err)
    /\ \A i \in DOMAIN dialogs :
          dialogs[i].kind = kind =>
             (IF kind = "edit2" THEN dialogs[i].client_id ELSE dialogs[i].budget_id) \notin ids

\* C21: the save of an edit dialog whose record was deleted while the dialog
\* was open leaves clients and budgets as they are (the record is not
\* re-created) and ends in the success message unless a statement of the
\* store itself fails; while that message is shown no record has the identifier.
C21_UnmatchedEditNoOp ==
    /\ [][ /\ C21_SavesUnmatched("edit2", {clients[k].client_id : k \in DOMAIN clients},
                                 "Cliente atualizado com sucesso!",
                                 "Erro ao atualizar cliente")
              => /\ clients' = clients /\ budgets' = budgets
                 /\ C6_NoError("Cliente atualizado com sucesso!")
           /\ C21_SavesUnmatched("budget_edit", {budgets[k].budget_id : k \in DOMAIN budgets},
                                 "Orcamento atualizado com sucesso!",
                                 "Erro ao atualizar orcamento")
              => /\ clients' = clients /\ budgets' = budgets
                 /\ C6_NoError("Orcamento atualizado com sucesso!") ]_vars
    /\ [](Shown.a = "Cliente atualizado com sucesso!" /\ Shown.d.rowcount = 0
             => \A k \in DOMAIN clients : clients[k].client_id # Shown.d.id)

\* a client was deleted while its edit dialog was open, the dialog was saved,
\* and the success message is on the screen with no record of that identifier
C21_Witness ==
    /\ Shown.t = "showinfo"
    /\ Shown.a = "Cliente atualizado com sucesso!"
    /\ Shown.d.rowcount = 0
    /\ \A k \in DOMAIN clients : clients[k].client_id # Shown.d.id
    /\ nextClientRow > 1
    /\ \E i \in DOMAIN dialogs : dialogs[i].kind = "edit2" /\ dialogs[i].client_id = Shown.d.id

\* the budget this step appended holds the reference ref and the step ends in
\* the success message
C22_InsertedWith(refs) ==
    /\ Len(budgets') = Len(budgets) + 1
    /\ SubSeq(budgets', 1, Len(budgets)) = budgets
    /\ budgets'[Len(budgets')].client_id \in refs
    /\ Announced(pending', "Orcamento adicionado com sucesso!")
    /\ Shown'.t # "showerror"

\* C22: Salvar on an add dialog of budget.py with a client name that no client
\* record has inserts one budget whose client reference is NULL and shows the
\* success message; when client records have the name, the reference is the
\* identifier of one of them.
C22_Original ==
    [][\A i \in DOMAIN dialogs :
          /\ dialogs[i].kind = "manager_add"
          /\ Len(dialogs[i].name) > 0
          /\ dialogs[i].name # ClientNamePlaceholder
          /\ C17_Saved
          => IF C17_Identifiers(dialogs[i].name) = {}
             THEN C22_InsertedWith({<<"None">>})
             ELSE C22_InsertedWith(C17_Identifiers(dialogs[i].name))]_vars

\* the rowids of the client records this step changes or removes
C23_Affected ==
    {clients[i].id : i \in {k \in DOMAIN clients : \A j \in DOMAIN clients' : clients'[j] # clients[k]}}

\* C23: a step of edit_client or delete_client changes or removes the one
\* record selected in the list: every other client record is in the store
\* after the step with all its field values, also when two records were given
\* the same identifier.
C23_Original == [][Cardinality(C23_Affected) <= 1]_vars

\* the stored client records as the list shows them, in storage order
C24_Rows(rows) == [k \in DOMAIN rows |-> [f \in C7_Fields |-> rows[k][f]]]

\* those of them in which the term occurs in at least one field
C24_Matching(rows, term) ==
    SelectSeq(C24_Rows(rows), LAMBDA row : \E f \in C7_Fields : C7_Occurs(term, row[f]))

\* this step completes an add, an edit or a delete of a client: its success
\* message is the first box the handler shows
C24_Written ==
    /\ pending = << >> \/ Shown.t = "askyesno"
    /\ pending' # << >>
    /\ Shown'.t = "showinfo"
    /\ Shown'.a \in {"Cliente adicionado com sucesso!", "Cliente atualizado com sucesso!",
                     "Cliente excluido com sucesso!"}

\* this step is a search for a term other than the one the field held
C24_Searched ==
    /\ pending = << >>
    /\ pending' = << >>
    /\ search' # search

\* this step is Recarregar, or a search for the term the field already held
C24_Refreshed ==
    /\ pending = << >>
    /\ pending' = << >>
    /\ search' = search
    /\ tree' # tree

\* C24 as stated: after every successfully completed add, edit, delete, reload
\* and search of clients the list shows exactly the stored records that match
\* the term in the search field, in storage order.
C24_Original ==
    [][C24_Written \/ C24_Searched \/ C24_Refreshed
          => tree' = C24_Matching(clients', search')]_vars

\* the dialog d was saved as the two edit dialogs presented the record row:
\* the three entries as filled from the list, the observation box untouched
C25_AsPresented(d, row) ==
    /\ d.client_id = row.client_id
    /\ Entries(d.name, d.email, d.phone) = Prefilled(row)
    /\ d.observation = << >>

\* C25: an edit of a client saved as its dialogs presented it leaves the name,
\* email, phone, observation and date_added of the record as they were.
C25_Original ==
    [][C5_Edited =>
          \A i \in DOMAIN clients :
             C25_AsPresented(ClosingDialog(pending'), clients[i]) =>
                /\ Len(clients') = Len(clients)
                /\ clients'[i].name = clients[i].name
                /\ clients'[i].email = clients[i].email
                /\ clients'[i].phone = clients[i].phone
                /\ clients'[i].observation = clients[i].observation
                /\ clients'[i].date_added = clients[i].date_added]_vars

\* the database after the init_database methods of the files whose budgets
\* columns the sequence order lists have run on db, one after the other, none
\* of them failing
RECURSIVE C26_After(_, _)
C26_After(db, order) ==
    IF order = << >> THEN db
    ELSE C26_After(init_database(Statements, db, Head(order), "none"), Tail(order))

\* main.py then budget.py, budget.py then main.py, and each with a repetition
C26_Orders ==
    { <<MainColumns, ManagerColumns>>, <<ManagerColumns, MainColumns>>,
      <<MainColumns, MainColumns, ManagerColumns>>,
      <<ManagerColumns, MainColumns, ManagerColumns>> }

\* C26: once init_database of main.py and of budget.py have both run on a
\* database.db, in any order and any number of times, its budgets table has
\* every column that the add-budget handlers and load_budget_data of the two
\* files write or read.
C26_Original ==
    \A order \in C26_Orders :
       (MainColumns \cup ManagerColumns)
          \subseteq C26_After(Database(clientCols, clients, budgetCols), order).bcols

=============================================================================
